----------------------------- MODULE Spec2Model -----------------------------
(***************************************************************************)
(* Model of the 5907 scouting API storage engine.                          *)
(*                                                                         *)
(* StorageManager (src/src/storage_manager.rs) keeps every entity as a     *)
(* file <base>/<kind>/<stem>.<ext>: the live version has ext "current",    *)
(* an archived version has a fresh uuid as ext.  Every successful          *)
(* mutation appends one InternalMessage line to the transaction log.       *)
(* FormTemplate::validate_form (src/src/datatypes.rs) gates form writes.   *)
(***************************************************************************)
EXTENDS Integers, Sequences, FiniteSets, TLC

(***************************************************************************)
(* Bounds                                                                  *)
(***************************************************************************)
MaxLog == 3            \* successful mutations per behaviour
MaxClock == 0          \* last second the wall clock reaches
MaxFields == 2         \* descriptors per template in the validator check

(***************************************************************************)
(* Input domains                                                           *)
(***************************************************************************)
Names == {"a", "b"}                 \* alt-keys: template names, events, bytes names
Years == {2024, 2025}
FieldNames == {"auto", "note"}
Kinds == {"Template", "Schedule", "Bytes"}

\* datatypes.rs FieldDataType
FieldDataTypes ==
    { [tag |-> "Title"], [tag |-> "CheckBox"], [tag |-> "Number"],
      [tag |-> "ShortText"], [tag |-> "LongText"],
      [tag |-> "Rating", min |-> 0, max |-> 1],
      [tag |-> "Rating", min |-> 1, max |-> 5] }

\* datatypes.rs FieldData; the carried value is abstracted to a small integer
FieldDatas ==
    { [tag |-> t, val |-> v] :
        t \in {"CheckBox", "Rating", "Number", "ShortText", "LongText"},
        v \in {1, 9} }

FieldTemplates == [name : FieldNames, data_type : FieldDataTypes]

VARIABLES
    files,      \* the storage directory: path -> contents
    log,        \* the transaction log file: sequence of InternalMessage
    nextUuid,   \* number of uuids minted so far (Uuid::new_v4 is fresh)
    now,        \* Utc::now().timestamp()
    last,       \* the most recent call that succeeded
    lastOp,     \* per (kind, alt-key): the most recent call on it that succeeded
    vTemplate,  \* validator check: the template
    vForm,      \* validator check: the form
    vResult,    \* validator check: result of validate_form
    db,         \* the sled store and the in-memory cache of DBLayer
    sync,       \* a receiver pulling from its parent: both logs, the watermark
    calls       \* write calls past their file steps, their log append to come

vars ==
    <<files, log, nextUuid, now, last, lastOp, vTemplate, vForm, vResult, db,
      sync, calls>>

(***************************************************************************)
(* Encodings                                                               *)
(***************************************************************************)
\* a caller-supplied string used as (part of) a file name
Str(s) == <<"str", s, 0>>

\* format!("{}", uuid): the printable form of the n-th minted uuid
UuidString(n) == <<"uuid", "", n>>

\* sha256 digest (hex) of a string: injective, and never equal to its input
digest(s) == <<"sha256">> \o s

\* the extension of the live version of an entity
Current == <<"current">>

\* serde_json::to_string / serde_json::from_slice
to_string(v) == <<"json", v>>

IsJson(b) == Len(b) = 2 /\ b[1] = "json"

from_slice(b) == b[2]

\* the k low-order bytes of n, most significant first
RECURSIVE be_bytes(_, _)
be_bytes(n, k) ==
    IF k = 0 THEN <<>> ELSE be_bytes(n \div 256, k - 1) \o <<n % 256>>

\* (len as u64).to_be_bytes()
to_be_bytes(n) == be_bytes(n, 8)

\* u64::from_be_bytes
RECURSIVE from_be_bytes(_)
from_be_bytes(b) ==
    IF Len(b) = 0 THEN 0
    ELSE 256 * from_be_bytes(SubSeq(b, 1, Len(b) - 1)) + b[Len(b)]

(***************************************************************************)
(* File system                                                             *)
(***************************************************************************)
Path(dir, stem, ext) == [dir |-> dir, stem |-> stem, ext |-> ext]

DirMarker == <<"dir">>

Ok == [ok |-> TRUE, err |-> "none"]
Err(e) == [ok |-> FALSE, err |-> e]

\* a variant of write_non_create that opens with create and truncate
write_truncate(fs, path, contents) ==
    [res |-> Ok, fs |-> [q \in DOMAIN fs \cup {path} |-> IF q = path THEN contents ELSE fs[q]]]

\* OpenOptions::new().write(true).create_new(true).open(path) + write_all
write_non_create(fs, path, contents) ==
    IF path \in DOMAIN fs
    THEN [res |-> Err("AlreadyExists"), fs |-> fs]
    ELSE [res |-> Ok, fs |-> (path :> contents) @@ fs]

\* a variant of the rename that reports success when the source is missing
fs_rename_lenient(fs, from, to) ==
    IF from \notin DOMAIN fs THEN [res |-> Ok, fs |-> fs]
    ELSE [res |-> Ok,
          fs |-> [q \in (DOMAIN fs \ {from}) \cup {to} |->
                     IF q = to THEN fs[from] ELSE fs[q]]]

\* tokio::fs::rename
fs_rename(fs, from, to) ==
    IF from \notin DOMAIN fs
    THEN [res |-> Err("NotFound"), fs |-> fs]
    ELSE [res |-> Ok,
          fs |-> [q \in (DOMAIN fs \ {from}) \cup {to} |->
                    IF q = to THEN fs[from] ELSE fs[q]]]

\* tokio::fs::create_dir
fs_create_dir(fs, path) ==
    IF path \in DOMAIN fs
    THEN [res |-> Err("AlreadyExists"), fs |-> fs]
    ELSE [res |-> Ok, fs |-> (path :> DirMarker) @@ fs]

raw_add(fs, stem, ext, sub_path, data) ==
    write_non_create(fs, Path(sub_path, stem, ext), data)

\* a variant of raw_edit that writes the new version whether or not a live
\* one was there to archive
raw_edit_upsert(fs, stem, old_ext, sub_path, data) ==
    LET r == fs_rename(fs, Path(sub_path, stem, Current), Path(sub_path, stem, old_ext))
    IN  write_non_create(IF r.res.ok THEN r.fs ELSE fs, Path(sub_path, stem, Current), data)

raw_edit(fs, stem, old_ext, sub_path, data) ==
    LET r == fs_rename(fs, Path(sub_path, stem, Current),
                           Path(sub_path, stem, old_ext))
    IN  IF ~r.res.ok THEN r
        ELSE write_non_create(r.fs, Path(sub_path, stem, Current), data)

\* a variant of raw_delete that archives a copy and keeps the live version
raw_delete_copy(fs, stem, old_ext, sub_path) ==
    LET p == Path(sub_path, stem, Current)
    IN  IF p \notin DOMAIN fs THEN [res |-> Err("NotFound"), fs |-> fs]
        ELSE [res |-> Ok, fs |-> (Path(sub_path, stem, old_ext) :> fs[p]) @@ fs]

\* a variant of raw_delete that succeeds when there is no live version
raw_delete_idempotent(fs, stem, old_ext, sub_path) ==
    LET r == fs_rename(fs, Path(sub_path, stem, Current), Path(sub_path, stem, old_ext))
    IN  IF r.res.ok THEN r ELSE [res |-> Ok, fs |-> fs]

raw_delete(fs, stem, old_ext, sub_path) ==
    fs_rename(fs, Path(sub_path, stem, Current), Path(sub_path, stem, old_ext))

\* tokio::fs::read of the live version
raw_get(fs, stem, sub_path) ==
    LET p == Path(sub_path, stem, Current)
    IN  IF p \in DOMAIN fs THEN [ok |-> TRUE, err |-> "none", val |-> fs[p]]
        ELSE [ok |-> FALSE, err |-> "NotFound", val |-> <<>>]

\* template_dir(name, None): create forms/<name>
add_template_form_dir(fs, stem, ext) ==
    fs_create_dir(fs, Path("forms", stem, ext))

\* template_dir(name, Some(old)): rename forms/<name> to forms/<old>
rename_template_form_dir(fs, stem, old_ext) ==
    fs_rename(fs, Path("forms", stem, Current), Path("forms", stem, old_ext))

(***************************************************************************)
(* Transaction log                                                         *)
(***************************************************************************)
\* InternalMessage::new(data_type, action, name): id is a fresh uuid
InternalMessage_new(id, data_type, action, name) ==
    [id |-> id, data_type |-> data_type, action |-> action, name |-> name]

\* TransactionLog::log_transaction: append one line
log_transaction(lg, transaction) == Append(lg, transaction)

Name(stem, ext) == [stem |-> stem, ext |-> ext]

Call(op, kind, key, arg, res, ret) ==
    [op |-> op, kind |-> kind, key |-> key, arg |-> arg, res |-> res, ret |-> ret]

NoValue == <<>>

\* Option<T>
None == <<>>
Some(x) == <<x>>

\* what a handler leaves behind: its result, the directory, the log, the uuids used
Outcome(res, fs, lg, n) == [res |-> res, fs |-> fs, lg |-> lg, n |-> n]

(***************************************************************************)
(* Template validator (datatypes.rs)                                       *)
(***************************************************************************)
\* Form::get_field
get_field(form, name) ==
    IF name \in DOMAIN form.fields THEN Some(form.fields[name]) ELSE None

\* a variant of data_type_match that holds a Rating to the descriptor's bounds
data_type_match_bounds(field, data) ==
    CASE data.tag = "CheckBox"  -> field.data_type = [tag |-> "CheckBox"]
      [] data.tag = "Rating"    -> /\ field.data_type.tag = "Rating"
                                   /\ field.data_type.min <= data.val
                                   /\ data.val <= field.data_type.max
      [] data.tag = "Number"    -> field.data_type = [tag |-> "Number"]
      [] data.tag = "ShortText" -> field.data_type = [tag |-> "ShortText"]
      [] data.tag = "LongText"  -> field.data_type = [tag |-> "LongText"]

\* FieldTemplate::data_type_match
data_type_match(field, data) ==
    CASE data.tag = "CheckBox"  -> field.data_type = [tag |-> "CheckBox"]
      [] data.tag = "Rating"    -> field.data_type.tag = "Rating"
      [] data.tag = "Number"    -> field.data_type = [tag |-> "Number"]
      [] data.tag = "ShortText" -> field.data_type = [tag |-> "ShortText"]
      [] data.tag = "LongText"  -> field.data_type = [tag |-> "LongText"]

\* the loop of FormTemplate::validate_form from descriptor i on
RECURSIVE validate_from(_, _, _)
validate_from(template, form, i) ==
    IF i > Len(template.fields) THEN TRUE
    ELSE LET x == template.fields[i]
         IN  IF x.data_type.tag # "Title"
             THEN LET f == get_field(form, x.name)
                  IN  IF f = None THEN FALSE
                      ELSE IF ~data_type_match(x, f[1]) THEN FALSE
                      ELSE validate_from(template, form, i + 1)
             ELSE validate_from(template, form, i + 1)

\* a variant of validate_form that only asks for the fields to be present
validate_form_present(template, form) ==
    \A i \in DOMAIN template.fields :
        template.fields[i].data_type.tag # "Title" =>
            get_field(form, template.fields[i].name) # None

\* FormTemplate::validate_form
validate_form(template, form) == validate_from(template, form, 1)

(***************************************************************************)
(* Templates                                                               *)
(***************************************************************************)
templates_add(template) ==
    LET stem == digest(Str(template.name))
        r1 == raw_add(files, stem, Current, "templates", to_string(template))
        r2 == add_template_form_dir(r1.fs, stem, Current)
        id == nextUuid + 1
    IN  IF ~r1.res.ok THEN Outcome(r1.res, r1.fs, log, nextUuid)
        ELSE IF ~r2.res.ok THEN Outcome(r2.res, r2.fs, log, nextUuid)
        ELSE Outcome(Ok, r2.fs,
                     log_transaction(log,
                         InternalMessage_new(id, <<"Template">>, "Add",
                                             Name(stem, Current))),
                     id)

templates_edit(template) ==
    LET stem == digest(Str(template.name))
        old == UuidString(nextUuid + 1)
        r1 == raw_edit(files, stem, old, "templates", to_string(template))
        r2 == rename_template_form_dir(r1.fs, stem, old)
        r3 == add_template_form_dir(r2.fs, stem, Current)
        id == nextUuid + 2
    IN  IF ~r1.res.ok THEN Outcome(r1.res, r1.fs, log, nextUuid)
        ELSE IF ~r2.res.ok THEN Outcome(r2.res, r2.fs, log, nextUuid + 1)
        ELSE IF ~r3.res.ok THEN Outcome(r3.res, r3.fs, log, nextUuid + 1)
        ELSE Outcome(Ok, r3.fs,
                     log_transaction(log,
                         InternalMessage_new(id, <<"Template">>, "Edit",
                                             Name(stem, old))),
                     id)

templates_delete(name) ==
    LET stem == digest(Str(name))
        old == UuidString(nextUuid + 1)
        r1 == raw_delete(files, stem, old, "templates")
        r2 == rename_template_form_dir(r1.fs, stem, old)
        id == nextUuid + 2
    IN  IF ~r1.res.ok THEN Outcome(r1.res, r1.fs, log, nextUuid)
        ELSE IF ~r2.res.ok THEN Outcome(r2.res, r2.fs, log, nextUuid + 1)
        ELSE Outcome(Ok, r2.fs,
                     log_transaction(log,
                         InternalMessage_new(id, <<"Template">>, "Delete",
                                             Name(stem, old))),
                     id)

templates_get(fs, name) ==
    LET r == raw_get(fs, digest(Str(name)), "templates")
    IN  IF r.ok THEN [ok |-> TRUE, err |-> "none", val |-> from_slice(r.val)]
        ELSE r

(***************************************************************************)
(* Schedules                                                               *)
(***************************************************************************)
schedules_add(schedule) ==
    LET stem == digest(Str(schedule.event))
        r1 == raw_add(files, stem, Current, "schedules", to_string(schedule))
        id == nextUuid + 1
    IN  IF ~r1.res.ok THEN Outcome(r1.res, r1.fs, log, nextUuid)
        ELSE Outcome(Ok, r1.fs,
                     log_transaction(log,
                         InternalMessage_new(id, <<"Schedule">>, "Add",
                                             Name(stem, Current))),
                     id)

schedules_edit(schedule) ==
    LET stem == digest(Str(schedule.event))
        old == UuidString(nextUuid + 1)
        r1 == raw_edit(files, stem, old, "schedules", to_string(schedule))
        id == nextUuid + 2
    IN  IF ~r1.res.ok THEN Outcome(r1.res, r1.fs, log, nextUuid)
        ELSE Outcome(Ok, r1.fs,
                     log_transaction(log,
                         InternalMessage_new(id, <<"Schedule">>, "Edit",
                                             Name(stem, old))),
                     id)

schedules_delete(name) ==
    LET stem == digest(Str(name))
        old == UuidString(nextUuid + 1)
        r1 == raw_delete(files, stem, old, "schedules")
        id == nextUuid + 2
    IN  IF ~r1.res.ok THEN Outcome(r1.res, r1.fs, log, nextUuid)
        ELSE Outcome(Ok, r1.fs,
                     log_transaction(log,
                         InternalMessage_new(id, <<"Schedule">>, "Delete",
                                             Name(stem, old))),
                     id)

schedules_get(fs, name) ==
    LET r == raw_get(fs, digest(Str(name)), "schedules")
    IN  IF r.ok THEN [ok |-> TRUE, err |-> "none", val |-> from_slice(r.val)]
        ELSE r

(***************************************************************************)
(* Bytes                                                                   *)
(***************************************************************************)
\* [len(desired_key) as u64 big-endian, desired_key, data].concat()
bytes_blob(desired_key, data) ==
    to_be_bytes(Len(desired_key)) \o desired_key \o data

bytes_add(name, desired_key, data) ==
    LET r1 == raw_add(files, Str(name), Current, "bytes", bytes_blob(desired_key, data))
        id == nextUuid + 1
    IN  IF ~r1.res.ok THEN Outcome(r1.res, r1.fs, log, nextUuid)
        ELSE Outcome(Ok, r1.fs,
                     log_transaction(log,
                         InternalMessage_new(id, <<"Bytes">>, "Add",
                                             Name(Str(name), Current))),
                     id)

bytes_edit(name, desired_key, data) ==
    LET old == UuidString(nextUuid + 1)
        r1 == raw_edit(files, Str(name), old, "bytes", bytes_blob(desired_key, data))
        id == nextUuid + 2
    IN  IF ~r1.res.ok THEN Outcome(r1.res, r1.fs, log, nextUuid)
        ELSE Outcome(Ok, r1.fs,
                     log_transaction(log,
                         InternalMessage_new(id, <<"Bytes">>, "Add",
                                             Name(Str(name), old))),
                     id)

bytes_delete(name) ==
    LET old == UuidString(nextUuid + 1)
        r1 == raw_delete(files, Str(name), old, "bytes")
        id == nextUuid + 2
    IN  IF ~r1.res.ok THEN Outcome(r1.res, r1.fs, log, nextUuid)
        ELSE Outcome(Ok, r1.fs,
                     log_transaction(log,
                         InternalMessage_new(id, <<"Bytes">>, "Add",
                                             Name(Str(name), old))),
                     id)

bytes_get(fs, name) ==
    LET r == raw_get(fs, Str(name), "bytes")
    IN  IF r.ok
        THEN LET len == from_be_bytes(SubSeq(r.val, 1, 8))
             IN  [ok |-> TRUE, err |-> "none",
                  val |-> SubSeq(r.val, len + 8 + 1, Len(r.val))]
        ELSE r

(***************************************************************************)
(* Forms                                                                   *)
(***************************************************************************)
\* form.id = Some(pre); form.timestamp = Some(now); form.deleted = Some(d)
stamp(form, id, t, d) ==
    [fields |-> form.fields, scouter |-> form.scouter, team |-> form.team,
     match_number |-> form.match_number, event_key |-> form.event_key,
     id |-> id, timestamp |-> Some(t), deleted |-> Some(d)]

\* the entries of <base>/forms/: form files and template form directories
forms_dir(fs) == {p \in DOMAIN fs : p.dir = "forms"}

\* the DataFusion table "forms": one row per JSON file of the directory
forms_table(fs) ==
    {from_slice(fs[p]) : p \in {q \in forms_dir(fs) : fs[q] # DirMarker}}

Max(S) == CHOOSE x \in S : \A y \in S : y <= x

\* df.filter(fields IS NOT NULL AND deleted = false).select(max(timestamp)):
\* one row, whose only column is the aggregate
max_timestamp_row(fs) ==
    LET rows == {r \in forms_table(fs) : r.deleted = Some(FALSE)}
    IN  [max_timestamp |->
            IF rows = {} THEN None ELSE Some(Max({r.timestamp[1] : r \in rows}))]

\* the fields serde requires to build a Form (datatypes.rs Form)
FormRequired == {"fields", "scouter", "team", "match_number", "event_key"}

\* serde_json::from_str::<Form>
Form_from_json(row) ==
    IF FormRequired \subseteq DOMAIN row
    THEN [ok |-> TRUE, err |-> "none", val |-> row]
    ELSE [ok |-> FALSE, err |-> "Decode", val |-> <<>>]

\* forms_get never reads its template and id arguments
forms_get(fs, template, id) ==
    IF forms_dir(fs) = {} THEN [ok |-> FALSE, err |-> "no forms", val |-> <<>>]
    ELSE Form_from_json(max_timestamp_row(fs))

forms_add(template, form, t) ==
    LET pre == UuidString(nextUuid + 1)
        stamped == stamp(form, Some(pre), t, FALSE)
        ext == digest(UuidString(nextUuid + 2))
        tmpl == templates_get(files, template)
        r1 == raw_add(files, digest(pre), ext, "forms", to_string(stamped))
        id == nextUuid + 3
    IN  IF ~tmpl.ok THEN Outcome(Err(tmpl.err), files, log, nextUuid)
        ELSE IF ~validate_form(tmpl.val, stamped)
             THEN Outcome(Err("Invalid"), files, log, nextUuid)
        ELSE IF ~r1.res.ok THEN Outcome(r1.res, r1.fs, log, nextUuid)
        ELSE Outcome(Ok, r1.fs,
                     log_transaction(log,
                         InternalMessage_new(id, <<"Form", tmpl.val.name>>, "Add",
                                             Name(digest(pre), ext))),
                     id)

forms_edit(template, form, pre, t) ==
    LET stamped == stamp(form, Some(pre), t, FALSE)
        ext == digest(UuidString(nextUuid + 1))
        tmpl == templates_get(files, template)
        r1 == raw_add(files, digest(pre), ext, "forms", to_string(stamped))
        id == nextUuid + 2
    IN  IF ~tmpl.ok THEN Outcome(Err(tmpl.err), files, log, nextUuid)
        ELSE IF ~validate_form(tmpl.val, stamped)
             THEN Outcome(Err("Invalid"), files, log, nextUuid)
        ELSE IF ~r1.res.ok THEN Outcome(r1.res, r1.fs, log, nextUuid)
        ELSE Outcome(Ok, r1.fs,
                     log_transaction(log,
                         InternalMessage_new(id, <<"Form", tmpl.val.name>>, "Edit",
                                             Name(digest(pre), ext))),
                     id)

forms_delete(template, pre, t) ==
    LET ext == digest(UuidString(nextUuid + 1))
        got == forms_get(files, template, pre)
        r1 == raw_add(files, digest(pre), ext, "forms",
                      to_string(stamp(got.val, got.val.id, t, TRUE)))
        id == nextUuid + 2
    IN  IF ~got.ok THEN Outcome(Err(got.err), files, log, nextUuid)
        ELSE IF ~r1.res.ok THEN Outcome(r1.res, r1.fs, log, nextUuid)
        ELSE Outcome(Ok, r1.fs,
                     log_transaction(log,
                         InternalMessage_new(id, <<"Form", template>>, "Delete",
                                             Name(digest(pre), ext))),
                     id)

(***************************************************************************)
(* Listing and filtering (storage_manager.rs)                              *)
(***************************************************************************)
\* the columns of the listing table over a directory: those of its rows
table_schema(rows) == UNION {DOMAIN r : r \in rows}

\* the columns forms_filter names in its predicate
filter_columns(filter) ==
    {"fields", "template", "deleted"}
        \cup (IF filter.event # None THEN {"event_key"} ELSE {})
        \cup (IF filter.scouter # None THEN {"scouter"} ELSE {})
        \cup (IF filter.match_number # None THEN {"match_number"} ELSE {})
        \cup (IF filter.team # None THEN {"team"} ELSE {})

\* the conjunction forms_filter builds, on a row that has every column
df_filter(row, template, filter) ==
    /\ row.template = template
    /\ row.deleted = Some(FALSE)
    /\ filter.event # None => row.event_key = filter.event[1]
    /\ filter.scouter # None => row.scouter = filter.scouter[1]
    /\ filter.match_number # None => row.match_number = filter.match_number[1]
    /\ filter.team # None => row.team = filter.team[1]

\* StorageManager::forms_filter: val is the set of rows returned.  A
\* predicate over a column the table does not have fails the query.
forms_filter(fs, template, filter) ==
    IF forms_dir(fs) = {} THEN [ok |-> TRUE, err |-> "none", val |-> {}]
    ELSE IF ~(filter_columns(filter) \subseteq table_schema(forms_table(fs)))
         THEN [ok |-> FALSE, err |-> "Schema", val |-> {}]
    ELSE [ok |-> TRUE, err |-> "none",
          val |-> {r \in forms_table(fs) :
                      filter_columns(filter) \subseteq DOMAIN r
                          /\ df_filter(r, template, filter)}]

\* StorageManager::forms_list: the ids of the files ending in ".current"
\* inside the directory forms/<digest(template)>.current.  Forms are written
\* next to that directory (raw_add to "forms/"), never into it, so the
\* directory, when it exists, has no entries.
forms_list(fs, template) ==
    LET d == Path("forms", digest(Str(template)), Current)
    IN  IF d \in DOMAIN fs /\ fs[d] = DirMarker
        THEN [ok |-> TRUE, err |-> "none", val |-> {}]
        ELSE [ok |-> FALSE, err |-> "NotFound", val |-> {}]

\* the ".current" files of a directory: the rows of the listing table
current_files(fs, sub_path) ==
    {p \in DOMAIN fs : p.dir = sub_path /\ p.ext = Current}

\* StorageManager::templates_list: the name column, one entry per file
templates_list(fs) ==
    [p \in current_files(fs, "templates") |-> from_slice(fs[p]).name]

\* StorageManager::schedules_list: the event column, one entry per file
schedules_list(fs) ==
    [p \in current_files(fs, "schedules") |-> from_slice(fs[p]).event]

\* StorageManager::bytes_list: the key stored in front of the data, one
\* entry per file
bytes_list(fs) ==
    [p \in current_files(fs, "bytes") |->
        SubSeq(fs[p], 9, 8 + from_be_bytes(SubSeq(fs[p], 1, 8)))]

(***************************************************************************)
(* Inputs of the calls                                                     *)
(***************************************************************************)
CheckBoxField == [name |-> "auto", data_type |-> [tag |-> "CheckBox"]]
RatingField == [name |-> "note", data_type |-> [tag |-> "Rating", min |-> 1, max |-> 5]]

\* every name with the one-field template; the first season's template also
\* in its two-field revision
TemplateInputs ==
    { [name |-> n, year |-> 2024, fields |-> <<CheckBoxField>>] : n \in Names }
    \cup
    { [name |-> "a", year |-> 2025, fields |-> <<CheckBoxField, RatingField>>] }

Shift1 == [scouter |-> "s", station |-> 1, match_start |-> 1, match_end |-> 4]

ScheduleInputs ==
    { [event |-> n, shifts |-> <<>>] : n \in Names }
    \cup
    { [event |-> "a", shifts |-> <<Shift1>>] }

\* (desired_key, data) pairs, as byte strings
BytesInputs ==
    { [desired_key |-> <<107>>, data |-> <<1>>],
      [desired_key |-> <<107, 50>>, data |-> <<2, 3>>] }

\* a form with the checkbox (valid for the one-field template, short of a
\* field for the two-field one) and a form with a number in its place
FormFieldInputs ==
    { "auto" :> [tag |-> "CheckBox", val |-> 1],
      "auto" :> [tag |-> "Number", val |-> 1] }

FormInputs ==
    { [fields |-> f, scouter |-> "s", team |-> 10, match_number |-> 1,
       event_key |-> "e", id |-> None] : f \in FormFieldInputs }

\* datatypes.rs Filter: each predicate absent or one value
Filters ==
    [team : {None, Some(10), Some(11)}, match_number : {None, Some(1)},
     event : {None, Some("e")}, scouter : {None}]

\* the ids of the stored forms
FormIds == {r.id[1] : r \in forms_table(files)}

\* the form-uuids a caller names: a stored form's, or one that was never minted
KnownUuids == FormIds \cup {UuidString(0)}

\* Utc::now().timestamp(): the clock does not run backwards
Clock == {t \in now..(now + 1) : t <= MaxClock}

(***************************************************************************)
(* Actions: one per StorageManager call                                    *)
(***************************************************************************)
\* a call that fails is not recorded in last: it is a step that changes
\* nothing, unless the handler left files behind
Apply(o, call) ==
    /\ o.res.ok => Len(log) < MaxLog
    /\ files' = o.fs
    /\ log' = o.lg
    /\ nextUuid' = o.n
    /\ last' = IF o.res.ok THEN call ELSE last
    /\ lastOp' = IF o.res.ok /\ call.kind \in Kinds
                 THEN [lastOp EXCEPT ![<<call.kind, call.key>>] = call.op]
                 ELSE lastOp
    /\ UNCHANGED <<vTemplate, vForm, vResult, db, sync, calls>>

TemplatesAdd ==
    \E t \in TemplateInputs :
        LET o == templates_add(t)
        IN  Apply(o, Call("add", "Template", t.name, t, o.res, NoValue))
            /\ UNCHANGED now

TemplatesEdit ==
    \E t \in TemplateInputs :
        LET o == templates_edit(t)
        IN  Apply(o, Call("edit", "Template", t.name, t, o.res, NoValue))
            /\ UNCHANGED now

TemplatesDelete ==
    \E n \in Names :
        LET o == templates_delete(n)
        IN  Apply(o, Call("delete", "Template", n, NoValue, o.res, NoValue))
            /\ UNCHANGED now

SchedulesAdd ==
    \E s \in ScheduleInputs :
        LET o == schedules_add(s)
        IN  Apply(o, Call("add", "Schedule", s.event, s, o.res, NoValue))
            /\ UNCHANGED now

SchedulesEdit ==
    \E s \in ScheduleInputs :
        LET o == schedules_edit(s)
        IN  Apply(o, Call("edit", "Schedule", s.event, s, o.res, NoValue))
            /\ UNCHANGED now

SchedulesDelete ==
    \E n \in Names :
        LET o == schedules_delete(n)
        IN  Apply(o, Call("delete", "Schedule", n, NoValue, o.res, NoValue))
            /\ UNCHANGED now

BytesAdd ==
    \E n \in Names, b \in BytesInputs :
        LET o == bytes_add(n, b.desired_key, b.data)
        IN  Apply(o, Call("add", "Bytes", n, b.data, o.res, NoValue))
            /\ UNCHANGED now

BytesEdit ==
    \E n \in Names, b \in BytesInputs :
        LET o == bytes_edit(n, b.desired_key, b.data)
        IN  Apply(o, Call("edit", "Bytes", n, b.data, o.res, NoValue))
            /\ UNCHANGED now

BytesDelete ==
    \E n \in Names :
        LET o == bytes_delete(n)
        IN  Apply(o, Call("delete", "Bytes", n, NoValue, o.res, NoValue))
            /\ UNCHANGED now

FormsAdd ==
    \E n \in Names, f \in FormInputs, t \in Clock :
        LET o == forms_add(n, f, t)
        IN  /\ Apply(o, Call("add", "Form", n, f, o.res,
                             IF o.res.ok THEN UuidString(nextUuid + 1) ELSE NoValue))
            /\ now' = t

FormsEdit ==
    \E n \in Names, f \in FormInputs, u \in KnownUuids, t \in Clock :
        LET o == forms_edit(n, f, u, t)
        IN  /\ Apply(o, Call("edit", "Form", n, [form |-> f, id |-> u], o.res, NoValue))
            /\ now' = t

FormsDelete ==
    \E n \in Names, u \in KnownUuids, t \in Clock :
        LET o == forms_delete(n, u, t)
        IN  /\ Apply(o, Call("delete", "Form", n, [id |-> u], o.res, NoValue))
            /\ now' = t

\* DBLayer::new over an empty sled database: no template, no form tree, an
\* empty cache; n counts the uuids minted, removed is the caller's record of
\* the forms that remove_form took away; tasks are the mutate calls of
\* AppState still in flight and mlog is its transaction log
DBLayer_new ==
    [templates |-> {}, forms |-> {}, cache_templates |-> {}, cache |-> {},
     n |-> 0, removed |-> {}, tasks |-> {}, mlog |-> <<>>]

\* a node with no parent configured: nothing to pull, nothing pulled
SyncManager_new ==
    [alog |-> <<>>, ablobs |-> {},
     log |-> <<>>, blobs |-> {}, watermark |-> None, needed |-> {},
     clock |-> 0, pc |-> "Polling", txn |-> None, attempts |-> 0, locals |-> 0,
     cancels |-> 0, watermarks |-> {}]

Init ==
    /\ files = <<>>
    /\ log = <<>>
    /\ nextUuid = 0
    /\ now = 0
    /\ last = Call("init", "none", "none", NoValue, Ok, NoValue)
    /\ lastOp = [e \in Kinds \X Names |-> "none"]
    /\ vTemplate = [name |-> "a", year |-> 2024, fields |-> <<>>]
    /\ vForm = [fields |-> <<>>]
    /\ vResult = "none"
    /\ db = DBLayer_new
    /\ sync = SyncManager_new
    /\ calls = {}

Next ==
    \/ TemplatesAdd
    \/ TemplatesEdit
    \/ TemplatesDelete
    \/ SchedulesAdd
    \/ SchedulesEdit
    \/ SchedulesDelete
    \/ BytesAdd
    \/ BytesEdit
    \/ BytesDelete
    \/ FormsAdd
    \/ FormsEdit
    \/ FormsDelete

Spec == Init /\ [][Next]_vars

(***************************************************************************)
(* The validator on its own: FormTemplate::validate_form applied to one    *)
(* template and one form drawn from bounded sets                           *)
(***************************************************************************)
RECURSIVE SeqsUpTo(_, _)
SeqsUpTo(S, n) ==
    IF n = 0 THEN {<<>>}
    ELSE LET shorter == SeqsUpTo(S, n - 1)
         IN  shorter \cup {Append(q, x) : q \in {r \in shorter : Len(r) = n - 1}, x \in S}

\* the field maps a form can carry: each name absent or bound to one value
FieldMaps ==
    UNION { [D -> FieldDatas] : D \in SUBSET FieldNames }

InitValidate ==
    /\ files = <<>>
    /\ log = <<>>
    /\ nextUuid = 0
    /\ now = 0
    /\ last = Call("init", "none", "none", NoValue, Ok, NoValue)
    /\ lastOp = [e \in Kinds \X Names |-> "none"]
    /\ vTemplate \in { [name |-> "a", year |-> 2024, fields |-> fs] :
                          fs \in SeqsUpTo(FieldTemplates, MaxFields) }
    /\ vForm \in { [fields |-> m] : m \in FieldMaps }
    /\ vResult = "none"
    /\ db = DBLayer_new
    /\ sync = SyncManager_new
    /\ calls = {}

Validate ==
    /\ vResult = "none"
    /\ vResult' = IF validate_form(vTemplate, vForm) THEN "ok" ELSE "invalid"
    /\ UNCHANGED <<files, log, nextUuid, now, last, lastOp, vTemplate, vForm, db, sync, calls>>

NextValidate == Validate

SpecValidate == InitValidate /\ [][NextValidate]_vars


(***************************************************************************)
(* The calls seen through one interface, for the properties below          *)
(***************************************************************************)
\* the entity's most recent successful call added or edited it
Live(K, k) == lastOp[<<K, k>>] \in {"add", "edit"}

\* the entity's most recent successful call deleted it
Tombstoned(K, k) == lastOp[<<K, k>>] = "delete"

Dir(K) ==
    CASE K = "Template" -> "templates"
      [] K = "Schedule" -> "schedules"
      [] K = "Bytes"    -> "bytes"

\* the file stem a call derives from the alt-key
Stem(K, k) == IF K = "Bytes" THEN Str(k) ELSE digest(Str(k))

CallInputs(K) ==
    CASE K = "Template" -> TemplateInputs
      [] K = "Schedule" -> ScheduleInputs
      [] K = "Bytes"    -> { [name |-> n, desired_key |-> b.desired_key, data |-> b.data] :
                                n \in Names, b \in BytesInputs }

KeyOf(K, x) ==
    CASE K = "Template" -> x.name
      [] K = "Schedule" -> x.event
      [] K = "Bytes"    -> x.name

\* what a get is expected to hand back for the input x
ValueOf(K, x) == IF K = "Bytes" THEN x.data ELSE x

add(K, x) ==
    CASE K = "Template" -> templates_add(x)
      [] K = "Schedule" -> schedules_add(x)
      [] K = "Bytes"    -> bytes_add(x.name, x.desired_key, x.data)

edit(K, x) ==
    CASE K = "Template" -> templates_edit(x)
      [] K = "Schedule" -> schedules_edit(x)
      [] K = "Bytes"    -> bytes_edit(x.name, x.desired_key, x.data)

delete(K, k) ==
    CASE K = "Template" -> templates_delete(k)
      [] K = "Schedule" -> schedules_delete(k)
      [] K = "Bytes"    -> bytes_delete(k)

get_serialized(fs, K, k) ==
    CASE K = "Template" -> templates_get(fs, k)
      [] K = "Schedule" -> schedules_get(fs, k)
      [] K = "Bytes"    -> bytes_get(fs, k)

NotFound == [ok |-> FALSE, err |-> "NotFound", val |-> <<>>]

\* the call failed with e and left the directory, the log and the ids alone
FailsWith(o, e) == o = Outcome(Err(e), files, log, nextUuid)

\* the log positions of the transactions of one entity
TxnsOf(K, k) ==
    {i \in DOMAIN log : log[i].data_type = <<K>> /\ log[i].name.stem = Stem(K, k)}

\* the payload held by the file a transaction names
BlobPath(K, t) == Path(Dir(K), t.name.stem, t.name.ext)
PayloadOf(K, contents) ==
    IF K = "Bytes"
    THEN SubSeq(contents, from_be_bytes(SubSeq(contents, 1, 8)) + 9, Len(contents))
    ELSE from_slice(contents)

ActionOf(op) ==
    CASE op = "add" -> "Add" [] op = "edit" -> "Edit" [] op = "delete" -> "Delete"

\* the validation rule as the specification words it
RuleOk(template, form) ==
    \A i \in DOMAIN template.fields :
        template.fields[i].data_type.tag # "Title" =>
            /\ template.fields[i].name \in DOMAIN form.fields
            /\ form.fields[template.fields[i].name].tag = template.fields[i].data_type.tag


(***************************************************************************)
(* Properties                                                              *)
(***************************************************************************)
\* C1: last-writer-wins. For every kind and alt-key, a get returns the payload
\* of the blob named by the entity's latest transaction when that transaction
\* is Add or Edit, and fails with NotFound when it is Delete or when the
\* entity has no transaction.
C1_LastWriterWins ==
    \A K \in Kinds, k \in Names :
        LET g == get_serialized(files, K, k)
        IN  IF TxnsOf(K, k) = {} THEN g = NotFound
            ELSE LET t == log[Max(TxnsOf(K, k))]
                 IN  IF t.action = "Delete" THEN g = NotFound
                     ELSE /\ g.ok
                          /\ BlobPath(K, t) \in DOMAIN files
                          /\ g.val = PayloadOf(K, files[BlobPath(K, t)])

\* C2: round trip. Immediately after a successful add of a payload, for
\* Template, Schedule, Form and Bytes alike, the get for its alt-key returns
\* the payload (for Bytes the raw bytes without the length and key prefix;
\* for a Form the form as stored under the returned uuid).
C2_RoundTrip ==
    last.op = "add" =>
        IF last.kind = "Form"
        THEN LET g == forms_get(files, last.key, last.ret)
             IN  /\ g.ok
                 /\ g.val.id = Some(last.ret)
                 /\ [f \in FormRequired |-> g.val[f]] = [f \in FormRequired |-> last.arg[f]]
        ELSE LET g == get_serialized(files, last.kind, last.key)
             IN  g.ok /\ g.val = last.arg

\* C3: every successful add, edit and delete, for every kind including Bytes,
\* appends exactly one transaction whose action is Add, Edit and Delete
\* respectively, whose data_type is the kind and whose name carries the
\* entity's alt-key; a Delete names the blob that was live just before.
C3_Step ==
    nextUuid' # nextUuid =>
        /\ Len(log') = Len(log) + 1
        /\ SubSeq(log', 1, Len(log)) = log
        /\ LET t == log'[Len(log')]
               c == last'
           IN  /\ t.action = ActionOf(c.op)
               /\ c.kind \in Kinds =>
                     /\ t.data_type = <<c.kind>>
                     /\ t.name.stem = Stem(c.kind, c.key)
                     /\ c.op = "delete" =>
                           /\ BlobPath(c.kind, t) \in DOMAIN files'
                           /\ files'[BlobPath(c.kind, t)] =
                                  files[Path(Dir(c.kind), Stem(c.kind, c.key), Current)]
               /\ c.kind = "Form" => t.data_type = <<"Form", c.key>>

C3_OneTransactionPerMutation == [][C3_Step]_vars

\* the round trip for the kinds that are served from their own file
RoundTripByFile ==
    (last.op = "add" /\ last.kind \in Kinds) =>
        LET g == get_serialized(files, last.kind, last.key)
        IN  g.ok /\ g.val = last.arg

\* one transaction per mutation, for the calls other than bytes_edit and
\* bytes_delete
C3_StepButBytes ==
    (last'.kind = "Bytes" => last'.op = "add") => C3_Step

OneTransactionButBytes == [][C3_StepButBytes]_vars

\* last-writer-wins for the entities whose latest transaction is an Add of a
\* Template or a Schedule
LastAddWins ==
    \A K \in {"Template", "Schedule"}, k \in Names :
        (TxnsOf(K, k) # {} /\ log[Max(TxnsOf(K, k))].action = "Add") =>
            LET g == get_serialized(files, K, k)
                t == log[Max(TxnsOf(K, k))]
            IN  /\ g.ok
                /\ BlobPath(K, t) \in DOMAIN files
                /\ g.val = PayloadOf(K, files[BlobPath(K, t)])


\* C4: delete revives. While the most recent successful call on a Bytes key,
\* a template name or a schedule event is a delete, the get fails with
\* NotFound, an add of any payload for it succeeds, and the get after that
\* add returns the new payload.
C4_DeleteRevives ==
    \A K \in Kinds, k \in Names :
        Tombstoned(K, k) =>
            /\ get_serialized(files, K, k) = NotFound
            /\ \A x \in CallInputs(K) :
                   KeyOf(K, x) = k =>
                       LET o == add(K, x)
                           g == get_serialized(o.fs, K, k)
                       IN  o.res.ok /\ g.ok /\ g.val = ValueOf(K, x)

\* a Bytes key was added, deleted and added again with other bytes, and is
\* served with the bytes of the second add
C4_Revived ==
    /\ last.op = "add" /\ last.kind = "Bytes"
    /\ \E p \in DOMAIN files :
           /\ p.dir = "bytes" /\ p.stem = Str(last.key) /\ p.ext # Current
           /\ PayloadOf("Bytes", files[p]) # last.arg
    /\ bytes_get(files, last.key).ok
    /\ bytes_get(files, last.key).val = last.arg

\* C5: an add for a live alt-key fails with the conflict error, appends no
\* transaction and leaves the get for that alt-key unchanged; an add for an
\* alt-key that is not live (never added, or tombstoned) succeeds and appends
\* one transaction.
C5_AddConflict ==
    \A K \in Kinds :
        \A x \in CallInputs(K) :
            LET k == KeyOf(K, x)
                o == add(K, x)
            IN  IF Live(K, k)
                THEN /\ FailsWith(o, "AlreadyExists")
                     /\ get_serialized(o.fs, K, k) = get_serialized(files, K, k)
                ELSE o.res.ok /\ Len(o.lg) = Len(log) + 1

\* a template is live, an add of another payload under its name is refused,
\* and a tombstoned entity exists for which an add would succeed
C5_Refused ==
    /\ \E x \in TemplateInputs :
           /\ Live("Template", x.name)
           /\ templates_get(files, x.name).val # x
           /\ templates_add(x).res = Err("AlreadyExists")
    /\ \E K \in Kinds, k \in Names : Tombstoned(K, k)

C7_DeleteNotLive ==
    \A K \in {"Template", "Schedule"}, k \in Names :
        ~Live(K, k) => FailsWith(delete(K, k), "NotFound")

\* one template is tombstoned and another was never added, with a delete
\* already in the log
C7_NotLive ==
    /\ \E k \in Names : Tombstoned("Template", k) /\ templates_delete(k).res = Err("NotFound")
    /\ \E k \in Names : lastOp[<<"Template", k>>] = "none"
    /\ \E i \in DOMAIN log : log[i].action = "Delete"

C9_ValidationGating ==
    \A n \in Names :
        LET tmpl == templates_get(files, n)
        IN  tmpl.ok =>
                \A f \in FormInputs, t \in Clock :
                    ~RuleOk(tmpl.val, f) =>
                        /\ FailsWith(forms_add(n, f, t), "Invalid")
                        /\ forms_table(forms_add(n, f, t).fs) = forms_table(files)
                        /\ \A u \in KnownUuids :
                               /\ FailsWith(forms_edit(n, f, u, t), "Invalid")
                               /\ forms_table(forms_edit(n, f, u, t).fs) = forms_table(files)

\* a form is stored under a live template, and an add and an edit of that
\* form with a wrongly tagged value are both refused
C9_Gated ==
    /\ last.op = "add" /\ last.kind = "Form"
    /\ templates_get(files, last.key).ok
    /\ \E f \in FormInputs :
           /\ ~RuleOk(templates_get(files, last.key).val, f)
           /\ f.fields["auto"].tag = "Number"
           /\ forms_add(last.key, f, now).res = Err("Invalid")
           /\ forms_edit(last.key, f, last.ret, now).res = Err("Invalid")

\* C10: the validator accepts a form if and only if, for every descriptor of
\* the template whose type is not Title, the form holds a value under the
\* descriptor's name whose tag is the descriptor's type, a Rating value
\* matching a Rating descriptor whatever its bounds; Title descriptors and
\* fields the template does not ask for never cause a rejection.
C10_ValidateRule ==
    vResult # "none" => (vResult = "ok" <=> RuleOk(vTemplate, vForm))

\* a form is accepted although the template has a Title descriptor, the form
\* holds a Rating outside the bounds of its descriptor and the form holds a
\* field no non-Title descriptor names
C10_Accepted ==
    /\ vResult = "ok"
    /\ \E i \in DOMAIN vTemplate.fields : vTemplate.fields[i].data_type.tag = "Title"
    /\ \E i \in DOMAIN vTemplate.fields :
           /\ vTemplate.fields[i].data_type = [tag |-> "Rating", min |-> 0, max |-> 1]
           /\ vForm.fields[vTemplate.fields[i].name] = [tag |-> "Rating", val |-> 9]
    /\ \E name \in DOMAIN vForm.fields :
           \A i \in DOMAIN vTemplate.fields :
               vTemplate.fields[i].name = name => vTemplate.fields[i].data_type.tag = "Title"


(***************************************************************************)
(* Forms as the log records them                                           *)
(***************************************************************************)
\* the log positions of the transactions of one form of a template
FormTxns(T, st) ==
    {i \in DOMAIN log : log[i].data_type = <<"Form", T>> /\ log[i].name.stem = st}

FormStems(T) ==
    {log[i].name.stem : i \in {j \in DOMAIN log : log[j].data_type = <<"Form", T>>}}

LatestForm(T, st) == log[Max(FormTxns(T, st))]

\* the forms of a template whose latest transaction is Add or Edit
LiveForms(T) == {st \in FormStems(T) : LatestForm(T, st).action \in {"Add", "Edit"}}

\* the version of a form that its latest transaction names
CurrentForm(T, st) ==
    from_slice(files[Path("forms", st, LatestForm(T, st).name.ext)])

LiveFormIds(T) == {CurrentForm(T, st).id[1] : st \in LiveForms(T)}

\* a form satisfies every predicate the filter carries
SatisfiesFilter(form, filter) ==
    /\ filter.team # None => form.team = filter.team[1]
    /\ filter.match_number # None => form.match_number = filter.match_number[1]
    /\ filter.event # None => form.event_key = filter.event[1]
    /\ filter.scouter # None => form.scouter = filter.scouter[1]

\* the alt-keys of a kind whose latest transaction is Add or Edit
LogLive(K) ==
    {k \in Names : TxnsOf(K, k) # {} /\ log[Max(TxnsOf(K, k))].action \in {"Add", "Edit"}}

\* the list holds every key of S exactly once and nothing else
ListedOnce(list, S) ==
    /\ \A k \in S : Cardinality({p \in DOMAIN list : list[p] = k}) = 1
    /\ \A p \in DOMAIN list : list[p] \in S

\* C11: filter completeness. Every form of a template whose latest
\* transaction is Add or Edit and whose current version satisfies every
\* predicate a filter carries is among the forms forms_filter returns for
\* that template and filter; with the empty filter that is every live form.
C11_FilterComplete ==
    \A T \in Names :
        \A st \in LiveForms(T), fl \in Filters :
            SatisfiesFilter(CurrentForm(T, st), fl) =>
                LET r == forms_filter(files, T, fl)
                IN  r.ok /\ \E row \in r.val : row.id = CurrentForm(T, st).id

\* C14: forms_add returns a uuid no earlier forms_add returned, and the form
\* stored under a uuid that forms_add returned is what forms_get returns for
\* that uuid, with its id set to it, whatever other forms are stored.
C14_FreshAndRetrievable ==
    /\ \A i, j \in DOMAIN log :
           (i # j /\ log[i].data_type[1] = "Form" /\ log[j].data_type[1] = "Form"
                /\ log[i].action = "Add" /\ log[j].action = "Add")
               => log[i].name.stem # log[j].name.stem
    /\ \A T \in Names :
           \A st \in LiveForms(T) :
               (\E i \in FormTxns(T, st) : log[i].action = "Add") =>
                   LET cur == CurrentForm(T, st)
                       g == forms_get(files, T, cur.id[1])
                   IN  /\ g.ok
                       /\ g.val.id = cur.id
                       /\ [f \in FormRequired |-> g.val[f]] = [f \in FormRequired |-> cur[f]]

\* C15: forms_edit succeeds only if the template is live, the form validates
\* and the form-uuid is that of a live form; a missing template, a missing or
\* tombstoned form-uuid and a validation failure each yield their own error,
\* and a failing call appends no transaction.
C15_EditPreconditions ==
    \A n \in Names, f \in FormInputs, u \in KnownUuids, t \in Clock :
        LET o == forms_edit(n, f, u, t)
            tmpl == templates_get(files, n)
        IN  /\ o.res.ok => (tmpl.ok /\ RuleOk(tmpl.val, f) /\ u \in LiveFormIds(n))
            /\ ~o.res.ok => o.lg = log
            /\ ~tmpl.ok => o.res.err = "NotFound"
            /\ (tmpl.ok /\ ~RuleOk(tmpl.val, f)) => o.res.err = "Invalid"
            /\ (tmpl.ok /\ RuleOk(tmpl.val, f) /\ u \notin LiveFormIds(n)) =>
                   (~o.res.ok /\ o.res.err \notin {"NotFound", "Invalid"})

\* C16: the list of a kind holds exactly the alt-keys whose latest
\* transaction is Add or Edit, each once however often it was edited, and
\* forms_list of a live template holds exactly the uuids of the forms of that
\* template whose latest transaction is Add or Edit.
C16_Lists ==
    /\ ListedOnce(templates_list(files), LogLive("Template"))
    /\ ListedOnce(schedules_list(files), LogLive("Schedule"))
    /\ Cardinality(DOMAIN bytes_list(files)) = Cardinality(LogLive("Bytes"))
    /\ \A T \in Names :
           templates_get(files, T).ok =>
               LET r == forms_list(files, T)
               IN  r.ok /\ r.val = LiveFormIds(T)

\* the lists of templates, schedules and Bytes keys hold one entry for each
\* entity whose last successful call is an add or an edit
ListsFollowCalls ==
    /\ ListedOnce(templates_list(files), {k \in Names : Live("Template", k)})
    /\ ListedOnce(schedules_list(files), {k \in Names : Live("Schedule", k)})
    /\ Cardinality(DOMAIN bytes_list(files)) = Cardinality({k \in Names : Live("Bytes", k)})

\* the lists of templates and schedules agree with the log
ListsFollowLog ==
    /\ ListedOnce(templates_list(files), LogLive("Template"))
    /\ ListedOnce(schedules_list(files), LogLive("Schedule"))

\* forms_edit fails without a trace when the template is missing or the form
\* does not validate, with the errors of templates_get and of the validator
EditRefusals ==
    \A n \in Names, f \in FormInputs, u \in KnownUuids, t \in Clock :
        LET o == forms_edit(n, f, u, t)
            tmpl == templates_get(files, n)
        IN  /\ ~o.res.ok => o.lg = log
            /\ ~tmpl.ok => o.res.err = "NotFound"
            /\ (tmpl.ok /\ ~RuleOk(tmpl.val, f)) => o.res.err = "Invalid"

(***************************************************************************)
(* The sled revision: DBLayer keeps templates in one tree, the forms of a  *)
(* template in a tree named after it, and an in-memory cache from          *)
(* (template, predicate value) to form uuids that get consults             *)
(***************************************************************************)
MaxDbForms == 2

\* CacheInput: Team(i64), Match(i64), Scouter(String), Event(String)
Team(n) == <<"Team", n, "">>
Match(n) == <<"Match", n, "">>
Scouter(s) == <<"Scouter", 0, s>>
Event(s) == <<"Event", 0, s>>

Panic == [ok |-> FALSE, err |-> "panic"]
DbOutcome(res, d) == [res |-> res, db |-> d]

\* the tree named after a template: uuid -> form
tree(d, template) == {r \in d.forms : r.template = template}
contains_key(d, template, id) == \E r \in tree(d, template) : r.id = id

template_exists(d, name) == \E t \in d.templates : t.name = name

get_template(d, name) ==
    IF template_exists(d, name)
    THEN [ok |-> TRUE, err |-> "none",
          val |-> CHOOSE t \in d.templates : t.name = name]
    ELSE [ok |-> FALSE, err |-> "DoesNotExist", val |-> NoValue]

\* Cache::add_template: a template already cached keeps its entries
Cache_add_template(d, template) ==
    [d EXCEPT !.cache_templates = @ \cup {template}]

\* Cache::add: the uuid joins the set under the key; nothing ever leaves it
Cache_add(d, key, val, template) ==
    IF template \in d.cache_templates
    THEN DbOutcome(Ok, [d EXCEPT !.cache = @ \cup
                           {[template |-> template, key |-> key, id |-> val]}])
    ELSE DbOutcome(Err("DoesNotExist"), d)

Cache_get(d, key, template) ==
    IF template \in d.cache_templates
    THEN [ok |-> TRUE, err |-> "none",
          val |-> {e.id : e \in {c \in d.cache : c.template = template /\ c.key = key}}]
    ELSE [ok |-> FALSE, err |-> "DoesNotExist", val |-> {}]

\* the four keys update_cache files a form under
CacheKeys(form) ==
    {Team(form.team), Match(form.match_number), Scouter(form.scouter),
     Event(form.event_key)}

update_cache(d, form, uuid, template) ==
    IF template \in d.cache_templates
    THEN DbOutcome(Ok, [d EXCEPT !.cache = @ \cup
                           {[template |-> template, key |-> k, id |-> uuid] :
                               k \in CacheKeys(form)}])
    ELSE DbOutcome(Err("DoesNotExist"), d)

\* tree.insert(id, form): the form replaces the one stored under the uuid
tree_insert(d, template, id, form) ==
    [d EXCEPT !.forms = {r \in @ : ~(r.template = template /\ r.id = id)}
                        \cup {[template |-> template, id |-> id, form |-> form]}]

add_template(d, template) ==
    IF template_exists(d, template.name)
    THEN DbOutcome(Err("ExistsAlready"), d)
    ELSE DbOutcome(Ok, Cache_add_template(
                           [d EXCEPT !.templates = @ \cup {template}],
                           template.name))

\* an edit that does not look at the form tree
edit_template_unchecked(d, template) ==
    IF ~template_exists(d, template.name)
    THEN DbOutcome(Err("DoesNotExist"), d)
    ELSE DbOutcome(Ok, [d EXCEPT !.templates =
                           {t \in @ : t.name # template.name} \cup {template}])

\* the template is replaced only while its form tree is empty
edit_template(d, template) ==
    IF ~template_exists(d, template.name)
    THEN DbOutcome(Err("DoesNotExist"), d)
    ELSE IF tree(d, template.name) # {}
    THEN DbOutcome(Err("TemplateHasForms"), d)
    ELSE DbOutcome(Ok, [d EXCEPT !.templates =
                           {t \in @ : t.name # template.name} \cup {template}])

\* the template goes and its form tree is dropped; the cache is not touched
remove_template(d, name) ==
    IF ~template_exists(d, name)
    THEN DbOutcome(Err("DoesNotExist"), d)
    ELSE DbOutcome(Ok, [d EXCEPT !.templates = {t \in @ : t.name # name},
                                 !.forms = {r \in @ : r.template # name}])

add_form(d, form, template) ==
    LET temp == get_template(d, template)
        id == UuidString(d.n)
        minted == [d EXCEPT !.n = @ + 1]
        stored == tree_insert(minted, template, id, form)
        cached == update_cache(stored, form, id, template)
    IN  IF ~temp.ok THEN DbOutcome(Err(temp.err), d)
        ELSE IF ~validate_form(temp.val, form)
        THEN DbOutcome(Err("FormDoesNotFollowTemplate"), d)
        ELSE IF contains_key(minted, template, id)
        THEN DbOutcome(Err("ExistsAlready"), minted)
        ELSE cached

edit_form(d, form, id, template) ==
    LET temp == get_template(d, template)
    IN  IF ~temp.ok THEN DbOutcome(Err(temp.err), d)
        ELSE IF ~validate_form(temp.val, form)
        THEN DbOutcome(Err("FormDoesNotFollowTemplate"), d)
        ELSE IF ~contains_key(d, template, id)
        THEN DbOutcome(Err("DoesNotExist"), d)
        ELSE update_cache(tree_insert(d, template, id, form), form, id, template)

\* tree.remove(id) and nothing else: the uuid stays in the cache
remove_form_keep(d, template, id) ==
    LET temp == get_template(d, template)
    IN  IF ~temp.ok THEN DbOutcome(Err(temp.err), d)
        ELSE IF ~contains_key(d, template, id)
        THEN DbOutcome(Err("DoesNotExist"), d)
        ELSE DbOutcome(Ok, [d EXCEPT !.removed = @ \cup {<<template, id>>}])

remove_form(d, template, id) ==
    LET temp == get_template(d, template)
    IN  IF ~temp.ok THEN DbOutcome(Err(temp.err), d)
        ELSE IF ~contains_key(d, template, id)
        THEN DbOutcome(Err("DoesNotExist"), d)
        ELSE DbOutcome(Ok, [d EXCEPT
                 !.forms = {r \in @ : ~(r.template = template /\ r.id = id)},
                 !.removed = @ \cup {<<template, id>>}])

\* every uuid stored in the template's tree
get_all(d, template) == {r.id : r \in tree(d, template)}

\* the cache keys of the predicates a filter carries
FilterKeys(filter) ==
    (IF filter.team # None THEN {Team(filter.team[1])} ELSE {})
    \cup (IF filter.match_number # None THEN {Match(filter.match_number[1])} ELSE {})
    \cup (IF filter.scouter # None THEN {Scouter(filter.scouter[1])} ELSE {})
    \cup (IF filter.event # None THEN {Event(filter.event[1])} ELSE {})

\* one uuid set per predicate of the filter, or every uuid of the tree when
\* the filter carries none
get_uuids_from_filter(d, template, filter) ==
    IF FilterKeys(filter) = {}
    THEN [ok |-> TRUE, err |-> "none", val |-> {get_all(d, template)}]
    ELSE IF template \notin d.cache_templates
    THEN [ok |-> FALSE, err |-> "DoesNotExist", val |-> {}]
    ELSE [ok |-> TRUE, err |-> "none",
          val |-> {Cache_get(d, k, template).val : k \in FilterKeys(filter)}]

\* tree.get(x).unwrap().unwrap(): a uuid that is not in the tree panics
get_forms(d, template, uuids) ==
    IF \E u \in uuids : ~contains_key(d, template, u)
    THEN [res |-> Panic, val |-> {}]
    ELSE [res |-> Ok,
          val |-> {[form |-> r.form, id |-> r.id] :
                      r \in {x \in tree(d, template) : x.id \in uuids}}]

\* the intersection of the uuid sets, read back from the tree
get(d, template, filter) ==
    LET cache_result == get_uuids_from_filter(d, template, filter)
        first == CHOOSE x \in cache_result.val : TRUE
        set == {u \in first : \A x \in cache_result.val : u \in x}
    IN  IF ~cache_result.ok
        THEN [res |-> Err(cache_result.err), val |-> {}]
        ELSE get_forms(d, template, set)

\* build_cache: every template of the templates tree is cached and every
\* form of its tree is filed under its four keys
build_cache(d) ==
    [d EXCEPT
        !.cache_templates = @ \cup {t.name : t \in d.templates},
        !.cache = @ \cup UNION
            {{[template |-> r.template, key |-> k, id |-> r.id] :
                 k \in CacheKeys(r.form)} :
                r \in {x \in d.forms : template_exists(d, x.template)}}]

\* Cache::new: the cache of a fresh process holds nothing
Cache_new(d) == [d EXCEPT !.cache_templates = {}, !.cache = {}]

\* forms of two teams, valid and not, for the store
DbFormInputs == {[f EXCEPT !.team = t] : f \in FormInputs, t \in {10, 11}}

\* the uuids a caller names: minted ones, and one that never was
DbUuids == {UuidString(i) : i \in 0..MaxDbForms}

\* what a DBLayer call leaves alone
notDb ==
    <<files, log, nextUuid, now, last, lastOp, vTemplate, vForm, vResult, sync,
      calls>>

DbAddTemplate ==
    \E t \in TemplateInputs :
        /\ db' = add_template(db, t).db
        /\ UNCHANGED notDb

DbEditTemplate ==
    \E t \in TemplateInputs :
        /\ db' = edit_template(db, t).db
        /\ UNCHANGED notDb

DbRemoveTemplate ==
    \E n \in Names :
        /\ db' = remove_template(db, n).db
        /\ UNCHANGED notDb

DbAddForm ==
    \E f \in DbFormInputs, n \in Names :
        /\ db.n < MaxDbForms
        /\ db' = add_form(db, f, n).db
        /\ UNCHANGED notDb

DbEditForm ==
    \E f \in DbFormInputs, u \in DbUuids, n \in Names :
        /\ db' = edit_form(db, f, u, n).db
        /\ UNCHANGED notDb

DbRemoveForm ==
    \E u \in DbUuids, n \in Names :
        /\ db' = remove_form(db, n, u).db
        /\ UNCHANGED notDb

\* the process restarts: DBLayer::new, then build_cache over the stored trees
DbRestart ==
    /\ db' = build_cache(Cache_new(db))
    /\ UNCHANGED notDb

InitDb == Init

NextDb ==
    \/ DbAddTemplate
    \/ DbEditTemplate
    \/ DbRemoveTemplate
    \/ DbAddForm
    \/ DbEditForm
    \/ DbRemoveForm
    \/ DbRestart

SpecDb == InitDb /\ [][NextDb]_vars

(***************************************************************************)
(* Filtering forms through the cache                                       *)
(***************************************************************************)
\* C12: after any sequence of form add, edit and delete operations, a filter
\* query that returns (for any template and any filter) never returns a form
\* that was deleted and not put back: a form removed by remove_form is in no
\* result of get.
C12_NoDeletedForm ==
    \A n \in Names, fl \in Filters :
        LET r == get(db, n, fl)
        IN  r.res.ok => \A p \in r.val : <<n, p.id>> \notin db.removed

\* a form of a template was removed and a query on that template returns
\* the forms that remain
C12_DeletedHidden ==
    \E n \in Names, fl \in Filters :
        LET r == get(db, n, fl)
        IN  /\ \E e \in db.removed : e[1] = n
            /\ r.res.ok
            /\ r.val # {}

\* C13: filter soundness. Every form get(T, f) returns is stored under
\* template T, its current version satisfies every predicate f carries, and
\* no form-uuid is returned twice; so a form edited away from f is no longer
\* returned for f.
C13_FilterSound ==
    \A n \in Names, fl \in Filters :
        LET r == get(db, n, fl)
        IN  r.res.ok =>
                \A p \in r.val :
                    /\ [template |-> n, id |-> p.id, form |-> p.form] \in db.forms
                    /\ SatisfiesFilter(p.form, fl)
                    /\ Cardinality({q \in r.val : q.id = p.id}) = 1

\* C17: the index is derivable. In every state reached by form add, edit and
\* delete operations, the cache rebuilt from nothing out of what is stored
\* holds the same entries as the live cache.
C17_IndexDerivable ==
    build_cache(Cache_new(db)).cache = db.cache

\* the live cache never lacks an entry the rebuilt one has
RebuiltWithinLive ==
    build_cache(Cache_new(db)).cache \subseteq db.cache

\* no query ever panics
GetNeverPanics ==
    \A n \in Names, fl \in Filters : get(db, n, fl).res # Panic

(***************************************************************************)
(* Sync: a receiver B pulls the log of its parent A one transaction at a   *)
(* time. The parent serves its log through get_first and get_after; the    *)
(* receiver keeps a watermark and the set of blobs it still needs          *)
(***************************************************************************)
MaxParentLog == 2
MaxRetries == 1
MaxLocalWrites == 1
MaxCancels == 1

\* the entities the two nodes write: (kind, alt-key)
SyncEntities == {<<"Bytes", "a">>, <<"Bytes", "b">>, <<"Template", "a">>}

\* ids are unique across nodes: the minting node and its counter
NodeId(node, i) == <<node, i>>

\* the six-tuple of a transaction
Transaction(id, data_type, action, blob_id, alt_key, timestamp) ==
    [id |-> id, data_type |-> data_type, action |-> action,
     blob_id |-> blob_id, alt_key |-> alt_key, timestamp |-> timestamp]

\* a blob: its id and its bytes
Blob(blob_id) == [id |-> blob_id, bytes |-> <<"bytes", blob_id>>]

\* TransactionLog::get_first: the first line of the log; an empty file does
\* not parse
get_first(lg) ==
    IF Len(lg) = 0 THEN [ok |-> FALSE, err |-> "Decode", val |-> NoValue]
    ELSE [ok |-> TRUE, err |-> "none", val |-> lg[1]]

get_after_none(lg, id) == [ok |-> FALSE, err |-> "explode", val |-> NoValue]

\* TransactionLog::get_after: the line after the first line that carries the
\* id; at the tail there is none, and a log without the id has none either
get_after(lg, id) ==
    LET hits == {i \in 1..Len(lg) : lg[i].id = id}
        at == CHOOSE i \in hits : \A j \in hits : i <= j
    IN  IF hits = {} THEN [ok |-> FALSE, err |-> "dfasdfjkh", val |-> NoValue]
        ELSE IF at = Len(lg) THEN [ok |-> FALSE, err |-> "explode", val |-> NoValue]
        ELSE [ok |-> TRUE, err |-> "none", val |-> lg[at + 1]]

\* the positions of an entity's transactions in a log
EntityTxns(lg, e) ==
    {i \in 1..Len(lg) : lg[i].data_type = e[1] /\ lg[i].alt_key = e[2]}

\* latest(data_type, alt_key): the one with the maximum timestamp
latest(lg, e) ==
    CHOOSE i \in EntityTxns(lg, e) :
        \A j \in EntityTxns(lg, e) : lg[j].timestamp <= lg[i].timestamp

is_live(lg, e) ==
    /\ EntityTxns(lg, e) # {}
    /\ lg[latest(lg, e)].action \in {"Add", "Edit"}

\* get_serialized on a node: the payload the latest transaction names, or
\* NotFound when there is none, it is a Delete, or the blob is not there
node_get_serialized(lg, blobs, e) ==
    IF is_live(lg, e) /\ Blob(lg[latest(lg, e)].blob_id) \in blobs
    THEN [ok |-> TRUE, err |-> "none", val |-> Blob(lg[latest(lg, e)].blob_id).bytes]
    ELSE [ok |-> FALSE, err |-> "NotFound", val |-> NoValue]

\* a node's own write on an entity: Add when it is not live, Edit or Delete
\* when it is; a Delete names the blob of the last live version
local_actions(lg, e) == IF is_live(lg, e) THEN {"Edit", "Delete"} ELSE {"Add"}

local_txn(lg, e, action, id, t) ==
    Transaction(id, e[1], action,
                IF action = "Delete" THEN lg[latest(lg, e)].blob_id ELSE id,
                e[2], t)

\* the logs a quiescent parent can hold: its own writes, stamped 1, 2, ...
RECURSIVE ParentLogs(_)
ParentLogs(n) ==
    IF n = 0 THEN {<<>>}
    ELSE LET shorter == ParentLogs(n - 1)
         IN  shorter \cup UNION
             {{Append(lg, local_txn(lg, e, a, NodeId("A", n), n)) :
                  a \in local_actions(lg, e)} :
                 lg \in {x \in shorter : Len(x) = n - 1}, e \in SyncEntities}

\* the blobs a parent holds: one per Add or Edit
ParentBlobs(lg) == {Blob(lg[i].blob_id) : i \in 1..Len(lg)}

\* a receiver that has pulled nothing from a parent with the given log;
\* attempts counts the failed blob requests of the iteration under way
Receiver_new(alog) ==
    [alog |-> alog, ablobs |-> ParentBlobs(alog),
     log |-> <<>>, blobs |-> {}, watermark |-> None, needed |-> {},
     clock |-> 0, pc |-> "Polling", txn |-> None, attempts |-> 0, locals |-> 0,
     cancels |-> 0, watermarks |-> {}]

\* step 3: the first transaction, or the one after the watermark
next_after(s) ==
    IF s.watermark = None THEN get_first(s.alog)
    ELSE get_after(s.alog, s.watermark[1])

\* steps 3, 4a and 5: a transaction whose blob is unknown here goes through
\* needed-blobs and a fetch; no transaction means idle until the next tick
poll(s) ==
    LET resp == next_after(s)
    IN  IF ~resp.ok THEN [s EXCEPT !.pc = "Idle", !.attempts = 0]
        ELSE IF \E b \in s.blobs : b.id = resp.val.blob_id
        THEN [s EXCEPT !.txn = Some(resp.val), !.pc = "Applying", !.attempts = 0]
        ELSE [s EXCEPT !.txn = Some(resp.val), !.pc = "FetchingBlob",
                       !.needed = @ \cup {resp.val.blob_id}, !.attempts = 0]

\* a fetch that writes the blob and leaves its entry in needed-blobs
fetch_ok_keep(s) ==
    [s EXCEPT !.blobs = @ \cup {b \in s.ablobs : b.id = s.txn[1].blob_id},
              !.pc = "Applying"]

\* step 4a: the blob arrived and is written; it is needed no more
fetch_ok(s) ==
    [s EXCEPT !.blobs = @ \cup {b \in s.ablobs : b.id = s.txn[1].blob_id},
              !.needed = @ \ {s.txn[1].blob_id},
              !.pc = "Applying"]

\* a retry that forgets the blob it is still fetching
fetch_retry_forget(s) ==
    [s EXCEPT !.attempts = @ + 1, !.needed = @ \ {s.txn[1].blob_id}]

\* a transient failure of the blob request: the fetch is tried again, the
\* blob stays needed
fetch_retry(s) == [s EXCEPT !.attempts = @ + 1]

\* the fetch failed for good: the iteration ends, the error is surfaced
fetch_abort_advance(s) ==
    [s EXCEPT !.pc = "Aborted", !.watermark = Some(s.txn[1].id),
              !.txn = None, !.attempts = 0]

fetch_abort(s) == [s EXCEPT !.pc = "Aborted", !.txn = None, !.attempts = 0]

\* step 4b: the parent's transaction with the timestamp of the local clock
replicate_origin(txn, t) == txn

replicate(txn, t) == [txn EXCEPT !.timestamp = t]

\* the row goes into a table created with `id TEXT NOT NULL` and no key
\* (main.rs init_storage): an id the log already holds is accepted
append(s) ==
    [s EXCEPT !.clock = @ + 1,
              !.log = Append(@, replicate(s.txn[1], s.clock + 1)),
              !.pc = "Advancing"]

\* a failed append that leaves its row behind
append_abort_row(s) ==
    [s EXCEPT !.pc = "Aborted", !.txn = None, !.attempts = 0,
              !.log = Append(@, s.txn[1])]

\* the append failed: no row, the iteration ends
append_abort(s) ==
    [s EXCEPT !.pc = "Aborted", !.txn = None, !.attempts = 0]

\* a row of the watermarks table
WatermarkRow(owner, id) == [owner_id |-> owner, transaction_id |-> id]

\* an update of the watermarks table that inserts and never deletes
insert_watermark(rows, owner, id) == rows \cup {WatermarkRow(owner, id)}

\* the update of the watermarks table: inside one database transaction the
\* owner's row is deleted and the new one inserted
replace_watermark(rows, owner, id) ==
    {r \in rows : r.owner_id # owner} \cup {WatermarkRow(owner, id)}

\* an advance that jumps to the parent's last transaction
advance_skip(s) ==
    [s EXCEPT !.watermark = Some(s.alog[Len(s.alog)].id), !.txn = None,
              !.pc = "Polling",
              !.watermarks = replace_watermark(@, "parent",
                                               s.alog[Len(s.alog)].id)]

\* step 4d: the watermark is replaced with the id of the transaction; the
\* loop keeps what it wrote as its wm
advance(s) ==
    [s EXCEPT !.watermark = Some(s.txn[1].id), !.txn = None, !.pc = "Polling",
              !.watermarks = replace_watermark(@, "parent", s.txn[1].id)]

\* the task is dropped between the append and the replacement of the
\* watermark: what is written stays, the rest of the iteration does not
\* happen. (Dropped while fetching or before the append, the iteration
\* leaves what fetch_abort and append_abort leave.)
cancel(s) ==
    [s EXCEPT !.pc = "Aborted", !.txn = None, !.attempts = 0, !.cancels = @ + 1]

\* the receiver is a node of its own: a write of its own goes to its log
local_write(s, e, a) ==
    [s EXCEPT !.clock = @ + 1,
              !.locals = @ + 1,
              !.log = Append(@, local_txn(s.log, e, a,
                                          NodeId("B", s.locals + 1), s.clock + 1)),
              !.blobs = @ \cup (IF a = "Delete" THEN {}
                                ELSE {Blob(NodeId("B", s.locals + 1))})]

notSync ==
    <<files, log, nextUuid, now, last, lastOp, vTemplate, vForm, vResult, db,
      calls>>

SyncPoll ==
    /\ sync.pc = "Polling"
    /\ sync' = poll(sync)
    /\ UNCHANGED notSync

SyncFetchOk ==
    /\ sync.pc = "FetchingBlob"
    /\ sync' = fetch_ok(sync)
    /\ UNCHANGED notSync

SyncFetchRetry ==
    /\ sync.pc = "FetchingBlob"
    /\ sync.attempts < MaxRetries
    /\ sync' = fetch_retry(sync)
    /\ UNCHANGED notSync

SyncFetchAbort ==
    /\ sync.pc = "FetchingBlob"
    /\ sync' = fetch_abort(sync)
    /\ UNCHANGED notSync

SyncAppend ==
    /\ sync.pc = "Applying"
    /\ sync' = append(sync)
    /\ UNCHANGED notSync

SyncAppendAbort ==
    /\ sync.pc = "Applying"
    /\ sync' = append_abort(sync)
    /\ UNCHANGED notSync

SyncAdvance ==
    /\ sync.pc = "Advancing"
    /\ sync' = advance(sync)
    /\ UNCHANGED notSync

SyncCancel ==
    /\ sync.pc = "Advancing"
    /\ sync.cancels < MaxCancels
    /\ sync' = cancel(sync)
    /\ UNCHANGED notSync

\* the next poll tick, or the retry after a surfaced error
SyncTick ==
    /\ sync.pc \in {"Idle", "Aborted"}
    /\ sync' = [sync EXCEPT !.pc = "Polling"]
    /\ UNCHANGED notSync

SyncLocalWrite ==
    \E e \in SyncEntities :
        \E a \in local_actions(sync.log, e) :
            /\ sync.locals < MaxLocalWrites
            /\ sync' = local_write(sync, e, a)
            /\ UNCHANGED notSync

InitSync ==
    /\ files = <<>>
    /\ log = <<>>
    /\ nextUuid = 0
    /\ now = 0
    /\ last = Call("init", "none", "none", NoValue, Ok, NoValue)
    /\ lastOp = [e \in Kinds \X Names |-> "none"]
    /\ vTemplate = [name |-> "a", year |-> 2024, fields |-> <<>>]
    /\ vForm = [fields |-> <<>>]
    /\ vResult = "none"
    /\ db = DBLayer_new
    /\ sync \in {Receiver_new(lg) : lg \in ParentLogs(MaxParentLog)}
    /\ calls = {}

NextSync ==
    \/ SyncPoll
    \/ SyncFetchOk
    \/ SyncFetchRetry
    \/ SyncFetchAbort
    \/ SyncAppend
    \/ SyncAppendAbort
    \/ SyncAdvance
    \/ SyncTick
    \/ SyncLocalWrite

SpecSync == InitSync /\ [][NextSync]_vars

\* the same receiver when its task may also be dropped between the append
\* and the replacement of the watermark
InitCancel == InitSync

NextCancel ==
    \/ NextSync
    \/ SyncCancel

SpecCancel == InitCancel /\ [][NextCancel]_vars

(***************************************************************************)
(* What a completed pull leaves on the receiver                            *)
(***************************************************************************)
\* every transaction of the receiver's log came from the parent
OnlyPulled == \A i \in 1..Len(sync.log) : sync.log[i].id[1] = "A"

\* every kind and alt-key reads the same on the receiver as on the parent
SameGets ==
    \A e \in SyncEntities :
        node_get_serialized(sync.log, sync.blobs, e)
            = node_get_serialized(sync.alog, sync.ablobs, e)

\* the step that completes the pull loop: the parent answers that it has no
\* further transaction
Completes == sync.pc = "Polling" /\ sync'.pc = "Idle"

C19_IdPreservation ==
    [][(sync.pc = "Applying" /\ sync'.pc = "Advancing") =>
          LET origin == sync.txn[1]
              new == sync'.log[Len(sync'.log)]
          IN  /\ Len(sync'.log) = Len(sync.log) + 1
              /\ SubSeq(sync'.log, 1, Len(sync.log)) = sync.log
              /\ \E i \in 1..Len(sync.alog) : sync.alog[i] = origin
              /\ new.id = origin.id
              /\ new.data_type = origin.data_type
              /\ new.action = origin.action
              /\ new.blob_id = origin.blob_id
              /\ new.alt_key = origin.alt_key
              /\ \A i \in 1..Len(sync.log) :
                     sync.log[i].timestamp < new.timestamp]_vars

\* a transaction was pulled into a log that already held a write of the
\* receiver's own, stamped no earlier than the parent stamped the pulled one
C19_Replicated ==
    \E i, j \in 1..Len(sync.log) :
        /\ i < j
        /\ sync.log[i].id[1] = "B"
        /\ sync.log[j].id[1] = "A"
        /\ \E k \in 1..Len(sync.alog) :
               /\ sync.alog[k].id = sync.log[j].id
               /\ sync.alog[k].timestamp <= sync.log[i].timestamp

\* the transaction the watermark names is in the log and its blob is stored
WatermarkBacked ==
    sync.watermark # None =>
        \E i \in 1..Len(sync.log) :
            /\ sync.log[i].id = sync.watermark[1]
            /\ \E b \in sync.blobs : b.id = sync.log[i].blob_id

\* C20: in every reachable state of a receiver, the transaction its watermark
\* names is in its log and the blob of that transaction is in its blob
\* store; and a pull iteration whose blob fetch or append failed leaves the
\* watermark as it was.
C20_WatermarkSafety ==
    /\ []WatermarkBacked
    /\ [][(/\ sync.pc \in {"FetchingBlob", "Applying"}
           /\ sync'.pc \in {"FetchingBlob", "Aborted"})
              => sync'.watermark = sync.watermark]_vars

\* after an iteration that advanced the watermark, the fetch of a later
\* iteration failed: its blob is still needed
C20_FailedAfterAdvance ==
    /\ sync.watermark # None
    /\ sync.pc = "Aborted"
    /\ sync.needed # {}

\* the positions of the receiver's log that hold the transaction id
Occurrences(id) == {i \in 1..Len(sync.log) : sync.log[i].id = id}

\* a step in which the blob fetch under way fails: retried in place, or
\* given up with the error surfaced
FetchFails ==
    /\ sync.pc = "FetchingBlob"
    /\ \/ sync'.attempts > sync.attempts
       \/ sync'.pc = "Aborted"

\* the watermark moves at the end of an iteration whose blob fetch failed
\* and then succeeded
RetryAdvances ==
    /\ sync.pc = "Advancing"
    /\ sync'.pc = "Polling"
    /\ sync.attempts > 0

\* C21: a failed blob fetch appends nothing, leaves the watermark as it was
\* and leaves the blob id among the needed blobs; while the fetch has not
\* succeeded the transaction is not in the log; and when a later fetch of
\* that blob succeeds, the iteration ends with the transaction in the log
\* exactly once and the watermark on its id.
C21_PartialFailure ==
    /\ [](sync.pc = "FetchingBlob" => Occurrences(sync.txn[1].id) = {})
    /\ [][FetchFails =>
              /\ sync'.log = sync.log
              /\ sync'.watermark = sync.watermark
              /\ sync.txn[1].blob_id \in sync'.needed]_vars
    /\ [][RetryAdvances =>
              /\ sync'.watermark = Some(sync.txn[1].id)
              /\ Cardinality({i \in 1..Len(sync'.log) :
                                  sync'.log[i].id = sync.txn[1].id}) = 1]_vars

\* an iteration whose blob fetch failed and then succeeded has just moved
\* the watermark: the transaction is in the log once and its blob is stored
\* and no longer needed
C21_RetrySucceeded ==
    /\ sync.pc = "Polling"
    /\ sync.attempts > 0
    /\ sync.watermark # None
    /\ Cardinality(Occurrences(sync.watermark[1])) = 1
    /\ \E i \in Occurrences(sync.watermark[1]) :
           /\ sync.log[i].blob_id \notin sync.needed
           /\ \E b \in sync.blobs : b.id = sync.log[i].blob_id

\* the ids of the transactions written by the handlers of one node are
\* pairwise distinct: each is a fresh Uuid::new_v4
LocalIdsUnique ==
    \A i, j \in 1..Len(log) : log[i].id = log[j].id => i = j

\* C24: no two positions of a receiver's log hold the same transaction id,
\* whatever local writes, pull iterations, retries and cancelled iterations
\* came before.
C24_UniqueIds ==
    \A i, j \in 1..Len(sync.log) : sync.log[i].id = sync.log[j].id => i = j

\* C23: the writes of one node carry strictly increasing timestamps: no two
\* stamped writes of the node (the form versions the form handlers wrote,
\* the only writes the handlers stamp) share a timestamp.
C23_StrictTimestamps ==
    \A r1, r2 \in forms_table(files) :
        r1 # r2 => r1.timestamp # r2.timestamp

(***************************************************************************)
(* The peer-facing handlers of sync.rs                                     *)
(***************************************************************************)
\* the values a child_id header parses to as a uuid
ChildUuids == {"c1", "c2"}

\* SyncManager.approved_children, read from the configuration
approved_children == {"c1"}

\* the child_id header of a request: absent, a uuid, or not a uuid
ChildHeaders == {None} \cup {Some(c) : c \in ChildUuids \cup {"not-a-uuid"}}

\* SyncResponse::into_response, and the rejections of the extractor
Response(status, tag, body) == [status |-> status, tag |-> tag, body |-> body]

ChildID_from_request_parts(header) ==
    IF header = None
    THEN [ok |-> FALSE, val |-> Response(401, "missing child_id", NoValue)]
    ELSE IF header[1] \notin ChildUuids
         THEN [ok |-> FALSE,
               val |-> Response(400, "child_id incorrectly formatted", NoValue)]
         ELSE [ok |-> TRUE, val |-> header[1]]

valid_child_id(id) == id \in approved_children

\* the files the store holds
stored_files(fs) == {p \in DOMAIN fs : fs[p] # DirMarker}

\* what glob::glob makes of "<path>/**.*", where `**` is followed by `.` and
\* so is not a path component of its own: a build of the crate rejects the
\* pattern, or reads the two stars as one, which stays within one component
GlobBuilds == {"rejects", "single"}

\* a glob that walks every directory under the base path
glob_recursive(fs, build) ==
    [ok |-> TRUE, err |-> "none", val |-> stored_files(fs)]

\* StorageManager::glob: the pattern is "<path>/**.*"; every file of the
\* store lies in a directory below the base path, where one component does
\* not reach
glob(fs, build) ==
    IF build = "rejects"
    THEN [ok |-> FALSE, err |-> "PatternError", val |-> {}]
    ELSE [ok |-> TRUE, err |-> "none", val |-> {}]

\* sync::diff: child_id: ChildID is an argument, so the extractor runs first;
\* the result of glob is unwrapped, so an Err is a panic of the task and the
\* peer gets no Diff
diff(fs, header, theirs, build) ==
    LET child_id == ChildID_from_request_parts(header)
        self_glob == glob(fs, build)
    IN  IF ~child_id.ok THEN child_id.val
        ELSE IF ~valid_child_id(child_id.val)
             THEN Response(401, "UnapprovedChild", NoValue)
        ELSE IF ~self_glob.ok THEN Response(500, "panic", NoValue)
        ELSE IF theirs = {} THEN Response(200, "Diff", <<self_glob.val, {}>>)
        ELSE Response(200, "Diff",
                      <<self_glob.val \ theirs, theirs \ self_glob.val>>)

\* sync::get_file takes the path and the storage manager only: the request's
\* child_id header is never read
get_file(fs, header, path) ==
    IF path \in DOMAIN fs /\ fs[path] # DirMarker
    THEN Response(200, "File", fs[path])
    ELSE Response(404, "NotFound", NoValue)

\* the request carries no child-id the node approves
Unapproved(header) ==
    header = None \/ header[1] \notin approved_children

\* a request of an unapproved peer gets no Diff from diff
DiffGated ==
    \A h \in ChildHeaders, theirs \in SUBSET DOMAIN files, b \in GlobBuilds :
        LET resp == diff(files, h, theirs, b)
        IN  Unapproved(h) => resp.status \in {400, 401} /\ resp.body = NoValue

\* C22: a peer-facing call answers with data only to a request whose
\* child-id is approved: for a missing or unapproved child-id, diff and
\* get_file refuse with status 401 and an empty body, whatever the store
\* holds.
C22_PeerCallsGated ==
    \A h \in {None, Some("c2")} :
        /\ \A theirs \in SUBSET DOMAIN files, b \in GlobBuilds :
               diff(files, h, theirs, b) \in
                   {Response(401, tag, NoValue) :
                        tag \in {"UnapprovedChild", "missing child_id"}}
        /\ \A p \in DOMAIN files :
               LET resp == get_file(files, h, p)
               IN  resp.status = 401 /\ resp.body = NoValue

(***************************************************************************)
(* Writes whose append to the log fails                                    *)
(***************************************************************************)
MaxUuid == 5

\* the outcomes of the template write calls a client can make in the
\* current state
TemplateCalls ==
    {templates_add(t) : t \in TemplateInputs}
    \cup {templates_edit(t) : t \in TemplateInputs}
    \cup {templates_delete(n) : n \in Names}

\* every handler ends with `self.transaction_log.log_transaction(..).await`
\* and returns its Result: when opening or writing the log file fails, the
\* call returns the error and what it wrote to the directories stays
append_fails(o) == Outcome(Err("Io"), o.fs, log, o.n)

\* a template write call in which every step before the append succeeds and
\* the append fails
AppendFails ==
    \E o \in TemplateCalls :
        /\ o.res.ok
        /\ o.n <= MaxUuid
        /\ files' = append_fails(o).fs
        /\ log' = append_fails(o).lg
        /\ nextUuid' = append_fails(o).n
        /\ UNCHANGED <<now, last, lastOp, vTemplate, vForm, vResult, db, sync, calls>>

InitFault == Init

\* the template handlers, with and without a failing append
NextFault ==
    \/ TemplatesAdd
    \/ TemplatesEdit
    \/ TemplatesDelete
    \/ AppendFails

SpecFault == InitFault /\ [][NextFault]_vars

\* what the read calls answer over a store
Observed(fs) ==
    [templates |-> [n \in Names |-> templates_get(fs, n)],
     schedules |-> [n \in Names |-> schedules_get(fs, n)],
     bytes |-> [n \in Names |-> bytes_get(fs, n)],
     templates_list |-> templates_list(fs),
     schedules_list |-> schedules_list(fs),
     bytes_list |-> bytes_list(fs),
     forms_list |-> [n \in Names |-> forms_list(fs, n)],
     forms_filter |-> [n \in Names |-> [f \in Filters |-> forms_filter(fs, n, f)]]]

\* without a failing append, a call that adds no transaction changes no file
FailureLeavesFiles == [][log' = log => files' = files]_vars

\* C25: a write call that fails adds no transaction and leaves what get,
\* list and forms_filter answer exactly as before the call: a step that
\* leaves the log as it was leaves every such answer as it was.
C25_AllOrNothing ==
    [][log' = log => Observed(files') = Observed(files)]_vars

(***************************************************************************)
(* Read calls                                                              *)
(***************************************************************************)
\* a variant of check_table that creates the directory it is to scan
check_table_create(fs, sub_path) ==
    fs_create_dir(fs, Path(sub_path, <<"table">>, Current)).fs

\* StorageManager::check_table: the listing table over the directory is
\* registered with the query session on first use; the directory is scanned
\* for its schema, nothing is written to it
check_table(fs, sub_path) == fs

\* a read call answered with r: the call and its result are recorded, the
\* store is what the handler left
Read(op, kind, key, r, fs) ==
    /\ last' = Call(op, kind, key, NoValue, [ok |-> r.ok, err |-> r.err], NoValue)
    /\ files' = fs
    /\ UNCHANGED <<log, nextUuid, now, lastOp, vTemplate, vForm, vResult, db, sync, calls>>

\* templates_get, schedules_get, bytes_get: fs::read of the current file
ReadGet ==
    \E K \in Kinds, k \in Names :
        Read("get", K, k, get_serialized(files, K, k), files)

\* templates_list, schedules_list, bytes_list: each registers its own
\* listing table with the session and selects one column
ReadList ==
    \E K \in Kinds :
        Read("list", K, "", Ok, files)

ReadFormsGet ==
    \E n \in Names, u \in KnownUuids :
        LET fs == check_table(files, "forms")
        IN  Read("forms_get", "Form", n, forms_get(fs, n, u), fs)

ReadFormsList ==
    \E n \in Names :
        Read("forms_list", "Form", n, forms_list(files, n), files)

ReadFormsFilter ==
    \E n \in Names, f \in Filters :
        LET fs == check_table(files, "forms")
        IN  Read("forms_filter", "Form", n, forms_filter(fs, n, f), fs)

\* get_first and get_after: File::open of the log, read line by line
ReadNextAfter ==
    \/ Read("next_after", "Log", "", get_first(log), files)
    \/ \E id \in {0} \cup {log[i].id : i \in 1..Len(log)} :
           Read("next_after", "Log", "", get_after(log, id), files)

\* sync::get_file and sync::diff
ReadGetFile ==
    \E h \in ChildHeaders, p \in DOMAIN files \cup {Path("bytes", Str("a"), Current)} :
        LET resp == get_file(files, h, p)
        IN  Read("get_file", "File", "", [ok |-> resp.status = 200, err |-> resp.tag], files)

ReadDiff ==
    \E h \in ChildHeaders, theirs \in {{}, DOMAIN files}, b \in GlobBuilds :
        LET resp == diff(files, h, theirs, b)
        IN  Read("diff", "File", "", [ok |-> resp.status = 200, err |-> resp.tag], files)

ReadOps ==
    {"get", "list", "forms_get", "forms_list", "forms_filter", "next_after",
     "get_file", "diff"}

InitRead == Init

\* the read calls of one node, over the stores that adding templates,
\* bytes and forms and deleting templates produce
NextRead ==
    \/ TemplatesAdd
    \/ TemplatesDelete
    \/ BytesAdd
    \/ FormsAdd
    \/ ReadGet
    \/ ReadList
    \/ ReadFormsGet
    \/ ReadFormsList
    \/ ReadFormsFilter
    \/ ReadNextAfter
    \/ ReadGetFile
    \/ ReadDiff

SpecRead == InitRead /\ [][NextRead]_vars

\* C26: a read call, whether it succeeds or fails, leaves the transaction
\* log, the stored files, the id counter, the form index and the sync state
\* of the node exactly as they were.
C26_ReadsLeaveState ==
    [][(last'.op \in ReadOps /\ last' # last) =>
           /\ files' = files
           /\ log' = log
           /\ nextUuid' = nextUuid
           /\ db' = db
           /\ sync' = sync]_vars

\* a read failed over a store that holds files and transactions
C26_FailedRead ==
    /\ last.op \in {"forms_get", "forms_filter", "next_after", "get"}
    /\ ~last.res.ok
    /\ files # <<>>
    /\ Len(log) > 0

\* C27: a blob, once written, is immutable: every file of the store is in
\* the store after every later step, under the same name and with the same
\* bytes.
C27_BlobsImmutable ==
    [][\A p \in DOMAIN files :
           p \in DOMAIN files' /\ files'[p] = files[p]]_vars

\* the bytes of a file are never replaced in place: a name that stays holds
\* the bytes it held
NoOverwrite ==
    [][\A p \in DOMAIN files :
           (p \in DOMAIN files' /\ p.ext # Current) => files'[p] = files[p]]_vars

\* every step keeps the transactions of the log, in place and unchanged
LogGrows ==
    /\ Len(log) <= Len(log')
    /\ SubSeq(log', 1, Len(log)) = log

\* rows are only ever added at the end of the log
LogPrefix == [][LogGrows]_vars

\* C28: the log is append-only: every step keeps every transaction where
\* and as it was, and a delete call that succeeds adds exactly one row, whose
\* action is Delete.
C28_AppendOnly ==
    [][/\ LogGrows
       /\ (last'.op = "delete" /\ Len(log') > Len(log)) =>
              /\ Len(log') = Len(log) + 1
              /\ log'[Len(log')].action = "Delete"]_vars

(***************************************************************************)
(* Bootstrap of a receiver from a quiescent parent                         *)
(***************************************************************************)
\* list(kind) over a node's log: the alt-keys of the live entities
node_list(lg, kind) ==
    {e[2] : e \in {x \in SyncEntities : x[1] = kind /\ is_live(lg, x)}}

\* the position in the parent's log of the transaction the watermark names;
\* 0 while there is no watermark
WmIndex ==
    IF sync.watermark = None THEN 0
    ELSE CHOOSE i \in 1..Len(sync.alog) : sync.alog[i].id = sync.watermark[1]

\* an iteration appends: the transaction is the parent's next one
AppliesNext ==
    (sync.pc = "Applying" /\ sync'.pc = "Advancing") =>
        /\ WmIndex < Len(sync.alog)
        /\ sync.txn[1] = sync.alog[WmIndex + 1]
        /\ sync'.log = Append(sync.log, replicate(sync.alog[WmIndex + 1], sync'.clock))

\* an iteration succeeds: the watermark moves one transaction on
AdvancesByOne ==
    (sync.pc = "Advancing" /\ sync'.pc = "Polling") =>
        /\ sync'.watermark = Some(sync.alog[WmIndex + 1].id)
        /\ \E i \in 1..Len(sync.log) : sync.log[i].id = sync.alog[WmIndex + 1].id

\* the watermark is on the last transaction of the parent
Bootstrapped ==
    /\ Len(sync.alog) > 0
    /\ sync.watermark = Some(sync.alog[Len(sync.alog)].id)

\* the receiver holds every blob of the parent and is handed no further
\* transaction
PulledAll ==
    /\ ParentBlobs(sync.alog) \subseteq sync.blobs
    /\ ~next_after(sync).ok

SameLists ==
    \A kind \in {e[1] : e \in SyncEntities} :
        node_list(sync.log, kind) = node_list(sync.alog, kind)

\* the successful iteration that puts the watermark on the parent's last
\* transaction
LastIteration ==
    /\ sync.pc = "Advancing"
    /\ sync'.pc = "Polling"
    /\ Bootstrapped'

RECURSIVE walk_from(_, _, _)
walk_from(lg, resp, fuel) ==
    IF ~resp.ok \/ fuel = 0 THEN <<>>
    ELSE <<resp.val>> \o walk_from(lg, get_after(lg, resp.val.id), fuel - 1)

walk(lg) == walk_from(lg, get_first(lg), Len(lg) + 1)

\* the walk hands out every transaction of the log once, in the order of
\* the log, and the call after the last one hands out none
TraversalVisitsAll ==
    /\ walk(log) = log
    /\ Len(log) > 0 => ~get_after(log, log[Len(log)].id).ok

\* an answer that carries no transaction and is not an error
IsNone(resp) == resp.ok /\ resp.val = NoValue

\* C30: get_after(id) hands out the transaction that follows id in the log
\* and None when id is the tail; get_first hands out the earliest; walking
\* from get_first with get_after(last id) visits every transaction of the
\* log once, in order, and ends with None.
C30_NextAfter ==
    /\ walk(log) = log
    /\ \A i \in 1..Len(log) :
           LET resp == get_after(log, log[i].id)
           IN  IF i < Len(log) THEN resp.ok /\ resp.val = log[i + 1]
               ELSE IsNone(resp)

(***************************************************************************)
(* Errors during a pull iteration                                          *)
(***************************************************************************)
\* a transient failure: the same request is made again
Retried ==
    /\ sync.pc = "FetchingBlob"
    /\ sync'.pc = "FetchingBlob"
    /\ sync'.attempts # sync.attempts

\* any other failure: the cycle ends and the error is surfaced
Surfaced ==
    /\ sync.pc \in {"FetchingBlob", "Applying"}
    /\ sync'.pc = "Aborted"

\* every transaction of the parent up to the watermark is in the log
NoneSkipped ==
    \A i \in 1..WmIndex :
        \E j \in 1..Len(sync.log) : sync.log[j].id = sync.alog[i].id

Task(id, form, template, pc) ==
    [id |-> id, form |-> form, template |-> template, pc |-> pc]

\* add_form up to tree.insert: the template is read, the form validated, a
\* uuid minted and the form stored under it
add_form_insert(d, form, template) ==
    LET temp == get_template(d, template)
        id == UuidString(d.n)
        minted == [d EXCEPT !.n = @ + 1]
        stored == tree_insert(minted, template, id, form)
    IN  IF ~temp.ok THEN DbOutcome(Err(temp.err), d)
        ELSE IF ~validate_form(temp.val, form)
        THEN DbOutcome(Err("FormDoesNotFollowTemplate"), d)
        ELSE IF contains_key(minted, template, id)
        THEN DbOutcome(Err("ExistsAlready"), minted)
        ELSE DbOutcome(Ok, [stored EXCEPT !.tasks = @ \cup
                               {Task(id, form, template, "stored")}])

\* the rest of add_form: update_cache under the cache's write lock
add_form_cache(d, t) ==
    LET o == update_cache(d, t.form, t.id, t.template)
    IN  IF o.res.ok
        THEN [o.db EXCEPT !.tasks = (@ \ {t}) \cup
                              {Task(t.id, t.form, t.template, "cached")}]
        ELSE [o.db EXCEPT !.tasks = @ \ {t}]

\* log_mutation: the message is written at the end of the transaction log
log_mutation(d, t) ==
    [d EXCEPT !.mlog = Append(@, [template |-> t.template, id |-> t.id,
                                  form |-> t.form]),
              !.tasks = @ \ {t}]

\* the future of a mutate call is dropped at an await: what it wrote stays
mutate_dropped(d, t) == [d EXCEPT !.tasks = @ \ {t}]

MutateInsert ==
    \E f \in DbFormInputs, n \in Names :
        /\ db.n < MaxDbForms
        /\ db' = add_form_insert(db, f, n).db
        /\ UNCHANGED notDb

MutateCache ==
    \E t \in db.tasks :
        /\ t.pc = "stored"
        /\ db' = add_form_cache(db, t)
        /\ UNCHANGED notDb

MutateLog ==
    \E t \in db.tasks :
        /\ t.pc = "cached"
        /\ db' = log_mutation(db, t)
        /\ UNCHANGED notDb

MutateDropped ==
    \E t \in db.tasks :
        /\ db' = mutate_dropped(db, t)
        /\ UNCHANGED notDb

InitMutate == Init

NextMutate ==
    \/ DbAddTemplate
    \/ MutateInsert
    \/ MutateCache
    \/ MutateLog
    \/ MutateDropped

SpecMutate == InitMutate /\ [][NextMutate]_vars

\* the forms the transaction log has committed
Committed == {<<db.mlog[i].template, db.mlog[i].id>> : i \in 1..Len(db.mlog)}

\* every stored form is filed in the cache under each of its four keys
StoredFormsIndexed ==
    \A r \in db.forms : \A k \in CacheKeys(r.form) :
        [template |-> r.template, key |-> k, id |-> r.id] \in db.cache

\* once no mutate call is in flight and none was dropped, the cache, the
\* trees and the log agree
QuietAgrees ==
    (db.tasks = {} /\ Len(db.mlog) = db.n) =>
        /\ StoredFormsIndexed
        /\ \A c \in db.cache : <<c.template, c.id>> \in Committed

\* C32: under every interleaving of form mutations, and wherever one of
\* them is dropped, the forms index agrees with the log: an index row
\* exists only for a form a committed transaction names, and every stored
\* form has its rows
C32_IndexMatchesLog ==
    /\ \A c \in db.cache : <<c.template, c.id>> \in Committed
    /\ StoredFormsIndexed
(***************************************************************************)
(* Write calls on one alt-key running side by side. The handlers take      *)
(* &self on an Arc<StorageManager> and hold no lock: a call runs its file  *)
(* steps, then awaits log_transaction, and another call may run in between *)
(***************************************************************************)
\* a template write call runs its file steps; when they succeed its
\* transaction waits in calls for the append
RaceStart ==
    \E o \in TemplateCalls :
        /\ o.n <= MaxUuid
        /\ o.res.ok => Len(log) + Cardinality(calls) < MaxLog
        /\ files' = o.fs
        /\ nextUuid' = o.n
        /\ calls' = IF o.res.ok THEN calls \cup {o.lg[Len(o.lg)]} ELSE calls
        /\ UNCHANGED <<log, now, last, lastOp, vTemplate, vForm, vResult, db, sync>>

\* the log_transaction a call was waiting for
RaceAppend ==
    \E c \in calls :
        /\ log' = log_transaction(log, c)
        /\ calls' = calls \ {c}
        /\ UNCHANGED <<files, nextUuid, now, last, lastOp, vTemplate, vForm,
                       vResult, db, sync>>

InitRace == Init

NextRace ==
    \/ RaceStart
    \/ RaceAppend

SpecRace == InitRace /\ [][NextRace]_vars

\* the transactions of lg before position i on the entity of lg[i]
Before(lg, i) ==
    {j \in 1..(i - 1) : /\ lg[j].data_type = lg[i].data_type
                        /\ lg[j].name.stem = lg[i].name.stem}

LiveBefore(lg, i) ==
    /\ Before(lg, i) # {}
    /\ lg[Max(Before(lg, i))].action \in {"Add", "Edit"}

\* an Add follows nothing or a Delete, an Edit follows an Add or an Edit
LogOrdered(lg) ==
    \A i \in DOMAIN lg :
        /\ lg[i].action = "Add" => ~LiveBefore(lg, i)
        /\ lg[i].action = "Edit" => LiveBefore(lg, i)

\* calls that run one after the other leave an ordered log
SequentialLogOrdered ==
    \A i \in DOMAIN log :
        log[i].data_type = <<"Template">> =>
            /\ log[i].action = "Add" => ~LiveBefore(log, i)
            /\ log[i].action = "Edit" => LiveBefore(log, i)

\* the file steps of an add succeed only where no current file stands
AddCreatesNew ==
    [][\A c \in calls' \ calls :
          c.action = "Add" => ~raw_get(files, c.name.stem, "templates").ok]_vars

\* C33: under every interleaving of add, edit and delete calls on one
\* (kind, alt-key), two adds never both succeed on a live entity and the
\* log holds no Add appended while the entity was live and no Edit appended
\* while it was not
C33_Serialized == []LogOrdered(log) /\ AddCreatesNew
(***************************************************************************)
(* The watermarks table                                                    *)
(***************************************************************************)
\* the rows of the table for one owner
RowsOf(owner) == {r \in sync.watermarks : r.owner_id = owner}

\* the replacement of a row that stands has been observed
Replaced == sync.watermarks # {} /\ sync'.watermarks # sync.watermarks

PulledBlobIds ==
    {sync.alog[i].blob_id :
        i \in {j \in 1..Len(sync.alog) : j <= WmIndex + 1}}

StoredBlobIds == {b.id : b \in sync.blobs}

\* the fetch of the iteration under way has written its blob
BlobWritten == sync.pc = "FetchingBlob" /\ sync'.pc = "Applying"

\* C35: every entry of needed-blobs names a blob that a transaction pulled
\* from the parent references and that the local store does not hold; the
\* step that writes the blob removes the entry; a pull loop that has run to
\* its end leaves needed-blobs empty
C35_NeededBlobs ==
    /\ [](/\ sync.needed \subseteq PulledBlobIds
          /\ sync.needed \cap StoredBlobIds = {}
          /\ sync.pc = "Idle" => sync.needed = {})
    /\ [][BlobWritten => /\ sync.txn[1].blob_id \in sync.needed
                         /\ sync.txn[1].blob_id \notin sync'.needed
                         /\ sync.txn[1].blob_id \in StoredBlobIds']_vars

\* a loop that fetched every blob of a parent with two transactions and
\* then found nothing more to pull
C35_PulledAndIdle ==
    /\ sync.pc = "Idle"
    /\ Len(sync.alog) >= 2
    /\ WmIndex = Len(sync.alog)
    /\ PulledBlobIds \subseteq StoredBlobIds
    /\ sync.needed = {}
(***************************************************************************)
(* restore(txn_id) on a node                                               *)
(***************************************************************************)
\* a restore that repeats the action of the referenced transaction
restore_action_copied(lg, row) == row.action

\* the action of the new transaction inverts the tombstone state of the
\* entity: Add when it is deleted now, Edit otherwise
restore_action(lg, row) ==
    IF is_live(lg, <<row.data_type, row.alt_key>>) THEN "Edit" ELSE "Add"

\* restore(txn_id): the referenced row is read and asserted again under a
\* fresh id and the current timestamp; an id the log does not hold changes
\* nothing
restore(s, txn_id) ==
    LET hits == {i \in 1..Len(s.log) : s.log[i].id = txn_id}
        row == s.log[CHOOSE i \in hits : \A j \in hits : i <= j]
    IN  IF hits = {} THEN s
        ELSE [s EXCEPT !.clock = @ + 1,
                       !.locals = @ + 1,
                       !.log = Append(@,
                           Transaction(NodeId("B", s.locals + 1), row.data_type,
                                       restore_action(s.log, row), row.blob_id,
                                       row.alt_key, s.clock + 1))]

SyncRestore ==
    \E id \in {sync.alog[i].id : i \in 1..Len(sync.alog)} :
        /\ sync.locals < MaxLocalWrites
        /\ sync' = restore(sync, id)
        /\ UNCHANGED notSync

InitRestore == InitSync

NextRestore ==
    \/ NextSync
    \/ SyncRestore

SpecRestore == InitRestore /\ [][NextRestore]_vars

\* the transaction a step has appended
Appended == sync'.log[Len(sync'.log)]

\* the step is a restore: a local transaction that is no Delete and names a
\* blob that is not its own
RestoreStep ==
    /\ sync'.locals = sync.locals + 1
    /\ Appended.action # "Delete"
    /\ Appended.blob_id # Appended.id

PeerGlobs == SUBSET (DOMAIN files \cup {Path("bytes", Str("z"), Current)})

\* over whatever glob answered, diff is the two set differences
DiffOverGlob ==
    \A theirs \in PeerGlobs, b \in GlobBuilds :
        LET resp == diff(files, Some("c1"), theirs, b)
            g == glob(files, b)
        IN  g.ok => /\ resp.status = 200
                    /\ resp.body = <<g.val \ theirs, theirs \ g.val>>
                    /\ resp.body[1] \cap resp.body[2] = {}

\* C37: diff(peer_glob) from an approved child answers (have_only_here,
\* have_only_there): the local entries the peer does not name and the
\* entries the peer names that are not held here; the two are disjoint and
\* both are empty exactly when the two sets are equal
C37_DiffIsSetDifference ==
    \A theirs \in PeerGlobs, b \in GlobBuilds :
        LET resp == diff(files, Some("c1"), theirs, b)
            here == stored_files(files)
        IN  /\ resp.status = 200
            /\ resp.body = <<here \ theirs, theirs \ here>>
            /\ resp.body[1] \cap resp.body[2] = {}
            /\ (resp.body[1] = {} /\ resp.body[2] = {}) <=> here = theirs
(***************************************************************************)
(* Editing a template that has forms                                       *)
(***************************************************************************)
HasForms(name) == tree(db, name) # {}

TxnPath(t) ==
    Path(IF t.data_type[1] = "Form" THEN "forms" ELSE Dir(t.data_type[1]),
         t.name.stem, t.name.ext)

\* when a transaction is appended the file it names is in the store: every
\* handler writes or renames before it appends
WrittenBeforeAppend ==
    [][Len(log') = Len(log) + 1 => TxnPath(log'[Len(log')]) \in DOMAIN files']_vars

\* a template or schedule that the log has live can be read
LiveReadable ==
    \A K \in {"Template", "Schedule"} :
        \A k \in LogLive(K) : get_serialized(files, K, k).ok

\* C39: every transaction of the log names a blob that the store holds, so
\* get_serialized of an alt-key that the log has live never fails for a
\* missing blob
C39_BlobsPresent ==
    /\ \A i \in DOMAIN log : TxnPath(log[i]) \in DOMAIN files
    /\ \A K \in Kinds : \A k \in LogLive(K) : get_serialized(files, K, k).ok
(***************************************************************************)
(* The order of the parent's transactions on the receiver                  *)
(***************************************************************************)
\* the positions of the receiver's log that hold a transaction of the parent
Pulled == {i \in 1..Len(sync.log) : \E k \in 1..Len(sync.alog) :
                                        sync.alog[k].id = sync.log[i].id}

\* the position in the parent's log of the transaction at position i here
ParentIndex(i) ==
    CHOOSE k \in 1..Len(sync.alog) : sync.alog[k].id = sync.log[i].id

\* later here, by the receiver's timestamp, is nowhere earlier on the parent
SameOrder ==
    \A i, j \in Pulled :
        sync.log[i].timestamp < sync.log[j].timestamp =>
            ParentIndex(i) <= ParentIndex(j)

NoneTwice ==
    \A i, j \in Pulled : sync.log[i].id = sync.log[j].id => i = j

WatermarkForward == [][WmIndex' >= WmIndex]_vars

\* the order is kept, nothing is skipped and the watermark never goes back,
\* whether or not an iteration is dropped after its append
OrderedAndForward == [](SameOrder /\ NoneSkipped) /\ WatermarkForward

\* C40: the parent's transactions are in the receiver's log in the order of
\* the parent's log (by the receiver's timestamps), none skipped and none
\* appended twice, and the watermark only moves forward along the parent's
\* order, whatever iterations failed and were run again
C40_OrderedReplication ==
    /\ [](SameOrder /\ NoneSkipped /\ NoneTwice)
    /\ WatermarkForward
====
